---- MODULE Spec2Model ----
(***************************************************************************)
(* Model of the clip extraction pipeline of src/src/lib/clipExtractor.ts.  *)
(*                                                                         *)
(* Strings are sequences of one-character strings, so that slugify,        *)
(* padStart, toFixed and the filename templates are computed character by  *)
(* character.  Times are integers in microseconds: parseTimestamp yields   *)
(* whole milliseconds and interpolated hit times may fall between two      *)
(* milliseconds, which is what toFixed(3) and roundNumber round away.      *)
(* IEEE rounding error of the double arithmetic is not modelled.           *)
(***************************************************************************)
EXTENDS Integers, Sequences, FiniteSets, TLC

(***************************************************************************)
(* Bounds of the model.                                                    *)
(***************************************************************************)
MaxFiles == 2        \* subtitle files and videos of a run
MaxCandidates == 1   \* sibling videos tried for one requested subtitle
MaxStreams == 2      \* subtitle streams of a container
MaxHits == 3         \* hits processed in a run
MaxLimit == 1        \* the limit option
MaxTextLen == 2      \* characters of a block's text
MaxPatternLen == 2   \* atoms of a query pattern

(***************************************************************************)
(* Characters and strings.                                                 *)
(***************************************************************************)
LowerLetters ==
  {"a", "b", "c", "d", "e", "f", "g", "i", "k", "l", "m", "n", "o", "p", "r", "s",
   "t", "u", "v"}
UpperLetters == {"A", "E", "G", "N"}
DigitChars == <<"0", "1", "2", "3", "4", "5", "6", "7", "8", "9">>

\* String.prototype.toLowerCase, one character
ToLowerChar(c) ==
  CASE c = "A" -> "a"
    [] c = "B" -> "b"
    [] c = "E" -> "e"
    [] c = "N" -> "n"
    [] c = "G" -> "g"
    [] OTHER -> c

toLowerCase(s) == [i \in DOMAIN s |-> ToLowerChar(s[i])]

IsDigitChar(c) == \E i \in 1..10 : DigitChars[i] = c

\* the character class [a-z0-9]
IsSlugChar(c) == c \in LowerLetters \/ IsDigitChar(c)

\* replace(/[^a-z0-9]+/g, '_'): every maximal run of other characters
\* becomes one underscore
RECURSIVE ReplaceNonSlugRuns(_)
ReplaceNonSlugRuns(s) ==
  IF s = <<>> THEN <<>>
  ELSE IF IsSlugChar(Head(s)) THEN <<Head(s)>> \o ReplaceNonSlugRuns(Tail(s))
  ELSE IF Len(s) > 1 /\ ~IsSlugChar(s[2]) THEN ReplaceNonSlugRuns(Tail(s))
  ELSE <<"_">> \o ReplaceNonSlugRuns(Tail(s))

\* replace(/_{2,}/g, '_')
RECURSIVE CollapseUnderscores(_)
CollapseUnderscores(s) ==
  IF s = <<>> THEN <<>>
  ELSE IF Head(s) = "_" /\ Len(s) > 1 /\ s[2] = "_" THEN CollapseUnderscores(Tail(s))
  ELSE <<Head(s)>> \o CollapseUnderscores(Tail(s))

\* replace(/^_|_$/g, '')
TrimUnderscores(s) ==
  LET a == IF s # <<>> /\ Head(s) = "_" THEN Tail(s) ELSE s
  IN  IF a # <<>> /\ a[Len(a)] = "_" THEN SubSeq(a, 1, Len(a) - 1) ELSE a

slugify(value) ==
  TrimUnderscores(CollapseUnderscores(ReplaceNonSlugRuns(toLowerCase(value))))

\* Number.prototype.toString of a non-negative integer
RECURSIVE Digits(_)
Digits(n) ==
  IF n < 10 THEN <<DigitChars[n + 1]>>
  ELSE Digits(n \div 10) \o <<DigitChars[(n % 10) + 1]>>

\* String.prototype.padStart with a one-character filler
RECURSIVE padStart(_, _, _)
padStart(s, width, fill) ==
  IF Len(s) >= width THEN s ELSE padStart(<<fill>> \o s, width, fill)

\* String.prototype.replace(from, to) with a string pattern: first occurrence
RECURSIVE ReplaceFirst(_, _, _)
ReplaceFirst(s, from, to) ==
  IF s = <<>> THEN <<>>
  ELSE IF Head(s) = from THEN <<to>> \o Tail(s)
  ELSE <<Head(s)>> \o ReplaceFirst(Tail(s), from, to)

UsPerMs == 1000
MsPerSec == 1000

\* the millisecond count that toFixed(3) and Math.round(value * 1000) keep
\* of a non-negative time given in microseconds (ties round up)
RoundToMs(us) == (us + (UsPerMs \div 2)) \div UsPerMs

\* Number.prototype.toFixed(3) of a non-negative number of seconds
toFixed3(us) ==
  LET ms == RoundToMs(us)
  IN  Digits(ms \div MsPerSec) \o <<".">> \o padStart(Digits(ms % MsPerSec), 3, "0")

StartTagWidth == 10

formatStartTag(us) == ReplaceFirst(padStart(toFixed3(us), StartTagWidth, "0"), ".", "_")

buildOutputName(relativeMovieDir, index, startTime, container) ==
  slugify(relativeMovieDir) \o <<"_">> \o Digits(index) \o <<"_">>
    \o formatStartTag(startTime) \o <<".">> \o container

buildCoverName(relativeMovieDir, index, matchTime) ==
  slugify(relativeMovieDir) \o <<"_">> \o Digits(index) \o <<"_">>
    \o formatStartTag(matchTime) \o <<".", "j", "p", "g">>

\* Math.round(value * 1000) / 1000, kept as microseconds
roundNumber(us) == RoundToMs(us) * UsPerMs

(***************************************************************************)
(* Subtitle track selection (findSubtitleStreamIndex, extractSubtitleTrack) *)
(***************************************************************************)
TextCodecs == {"subrip", "text", "ass", "ssa", "webvtt", "mov_text"}

\* String.prototype.startsWith
startsWith(s, prefix) ==
  Len(s) >= Len(prefix) /\ SubSeq(s, 1, Len(prefix)) = prefix

\* stream.tags?.language?.toLowerCase().startsWith('en')
\* (an absent language tag is the empty string)
IsEnglish(stream) == startsWith(toLowerCase(stream.language), <<"e", "n">>)

\* Array.prototype.find: the first of the positions whose element satisfies
\* the predicate, 0 if there is none
FindFirst(positions) ==
  IF positions = {} THEN 0
  ELSE CHOOSE i \in positions : \A j \in positions : i <= j

IsSubrip(stream) == stream.codec_name = "subrip"

\* { index, codec } of a stream; null is NoSelection, an absent codec is ""
Selected(stream) == [found |-> TRUE, index |-> stream.index, codec |-> stream.codec_name]
NoSelection == [found |-> FALSE, index |-> 0, codec |-> ""]

\* findSubtitleStreamIndex with the subrip preference ahead of the English one
findSubtitleStreamIndex_SubripFirst(streams) ==
  LET english == FindFirst({i \in DOMAIN streams : IsEnglish(streams[i])})
      preferSubrip == FindFirst({i \in DOMAIN streams : IsSubrip(streams[i])})
  IN  IF preferSubrip # 0 THEN Selected(streams[preferSubrip])
      ELSE IF english # 0 THEN Selected(streams[english])
      ELSE IF streams # <<>> THEN Selected(streams[1])
      ELSE NoSelection

\* findSubtitleStreamIndex without the subrip preference
findSubtitleStreamIndex_NoSubrip(streams) ==
  LET english == FindFirst({i \in DOMAIN streams : IsEnglish(streams[i])})
  IN  IF english # 0 THEN Selected(streams[english])
      ELSE IF streams # <<>> THEN Selected(streams[1])
      ELSE NoSelection

\* what findSubtitleStreamIndex returns for the stream list ffprobe printed
findSubtitleStreamIndex(streams) ==
  LET english == FindFirst({i \in DOMAIN streams : IsEnglish(streams[i])})
      preferSubrip == FindFirst({i \in DOMAIN streams : IsSubrip(streams[i])})
  IN  IF english # 0 THEN Selected(streams[english])
      ELSE IF preferSubrip # 0 THEN Selected(streams[preferSubrip])
      ELSE IF streams # <<>> THEN Selected(streams[1])
      ELSE NoSelection

\* extractSubtitleTrack goes on to the remux only with a selection whose
\* codec is absent or text-based
IsUsableSelection(selection) ==
  selection.found /\ (selection.codec = "" \/ selection.codec \in TextCodecs)

(***************************************************************************)
(* Inputs of a run.                                                        *)
(***************************************************************************)
Languages == {<<>>, <<"E", "N", "G">>, <<"f", "r", "e">>}
Codecs == {"", "subrip", "ass", "hdmv_pgs_subtitle"}
StreamKinds == [language : Languages, codec_name : Codecs]

\* ffprobe numbers the streams of a container; the subtitle streams follow
\* the video and the audio stream
FirstSubtitleIndex == 2

KindLists == UNION {[1..n -> StreamKinds] : n \in 0..MaxStreams}

MakeStreams(kinds) ==
  [i \in DOMAIN kinds |->
     [index |-> FirstSubtitleIndex + i - 1,
      codec_name |-> kinds[i].codec_name,
      language |-> kinds[i].language]]

StreamLists == {MakeStreams(k) : k \in KindLists}

\* relative folders of the subtitle files below the media root, and the
\* folder of the subtitle cache relative to the media root
MovieDirs == {<<"A", " ", "b">>, <<"a", "-", "b">>, <<"c">>}
CacheDir == <<".", ".", "/", "t", "m", "p">>

CharCode(c) ==
  CASE c = " " -> 32 [] c = "-" -> 45 [] c = "." -> 46 [] c = "/" -> 47
    [] c = "A" -> 65 [] c = "_" -> 95 [] c = "a" -> 97 [] c = "b" -> 98
    [] c = "c" -> 99 [] c = "m" -> 109 [] c = "p" -> 112 [] c = "t" -> 116
    [] OTHER -> 0

\* the default comparison of Array.prototype.sort on strings
RECURSIVE StrLeq(_, _)
StrLeq(a, b) ==
  IF a = <<>> THEN TRUE
  ELSE IF b = <<>> THEN FALSE
  ELSE IF Head(a) = Head(b) THEN StrLeq(Tail(a), Tail(b))
  ELSE CharCode(Head(a)) < CharCode(Head(b))

SrtFile(dir) == [dir |-> dir, origin |-> "srt"]
AutoFile == [dir |-> CacheDir, origin |-> "auto"]

\* findSubtitleFiles returns the .srt paths sorted
SortedSrtLists ==
  {l \in UNION {[1..n -> {SrtFile(d) : d \in MovieDirs}] : n \in 0..MaxFiles} :
     \A i \in 1..(Len(l) - 1) : StrLeq(l[i].dir, l[i + 1].dir)}

\* hits as hitsForBlock produces them: end > start, in microseconds
HitPool ==
  {[start |-> 200000, end |-> 900000], [start |-> 10750500, end |-> 11250000]}

HitLists == UNION {[1..n -> HitPool] : n \in 0..MaxHits}

\* the time one cut takes (performance.now() difference, rounded)
ProcTimes == {842}

\* bufferMs in microseconds; the command line takes any integer, a negative
\* one included
BufferChoices == {-300000, 0, 400000}
Containers == {<<"m", "k", "v">>, <<"m", "p", "4">>}

\* how a child process ends: 'close' with code 0, 'close' with another code,
\* or an 'error' event because it could not be spawned
ExitOk == "exit 0"
ExitNonZero == "exit 1"
SpawnFailed == "spawn error"

Options ==
  [dryRun : BOOLEAN,
   limit : 0..MaxLimit,
   container : Containers,
   bufferUs : BufferChoices]

(***************************************************************************)
(* State of one run of ClipExtractor.                                      *)
(***************************************************************************)
VARIABLES
  opts,             \* the RequiredClipOptions the extractor was built with
  pc,               \* the await run() is suspended at
  error,            \* the message run() rejected with, "" while it has not
  dirs,             \* whether runRoot, vids and covers were created
  pending,          \* collectSubtitleFiles: requests or videos still to handle
  probe,            \* the stream list and the selection of the last ffprobe
  subtitleFiles,    \* the subtitle files collected
  fileIdx,          \* position of the subtitle file being processed
  hits,             \* findHits of that file
  hitIdx,           \* position of the hit being processed
  videoPath,        \* locateVideo of that file, "" for null
  processed,        \* run()'s counter of processHit calls
  cur,              \* processHit's locals across its awaits
  movieClipCounts,  \* per movie folder sequence counters
  metadataEntries,  \* the manifest entries pushed so far
  manifest,         \* what writeMetadata wrote
  spawned,          \* every child process launched so far, with how it ended
  warned,           \* the subtitle files run() warned it skips for want of a video
  child,            \* the child processes alive, and whether run() awaits one
  scan,             \* hitsForBlock's scan of one block (SpecScan)
  disk,             \* metadata.yaml written and read back (SpecYaml)
  srt,              \* parseSrt's pass over one subtitle file (SpecSrt)
  media,            \* a src_media row and the requests on it (SpecMedia)
  db,               \* the clips table and the import script (SpecImport)
  api               \* an extraction request of the API (SpecApi)

runVars ==
  <<opts, pc, error, dirs, pending, probe, subtitleFiles, fileIdx, hits, hitIdx,
    videoPath, processed, cur, movieClipCounts, metadataEntries, manifest, spawned,
    warned, child>>

svcVars == <<media, db, api>>

vars == <<runVars, scan, disk, srt, svcVars>>

AllDirs == MovieDirs \cup {CacheDir}

IdlePending == [mode |-> "idle", left |-> 0, candidates |-> 0]
NoProbe == [ran |-> FALSE, streams |-> <<>>, selection |-> NoSelection]
NoCur ==
  [startTime |-> 0, endTime |-> 0, nextIndex |-> 0, outputName |-> <<>>,
   coverName |-> <<>>, processingMs |-> 0, coverImage |-> <<>>]
NoManifest == [written |-> FALSE, total_clips |-> 0, clips |-> <<>>]
NoDisk == [pc |-> "idle"]
NoSrt == [pc |-> "idle"]
NoMedia == [pc |-> "idle"]
NoDb == [pc |-> "idle"]
NoApi == [pc |-> "idle"]
IdleServices == media = NoMedia /\ db = NoDb /\ api = NoApi
IdleScan == [pc |-> "idle", block |-> [start |-> 0, end |-> 0, text |-> <<>>],
             pattern |-> <<>>, bits |-> 0, lastIndex |-> 0, matches |-> <<>>]

VideoFile == "video"
VidsDir == <<"v", "i", "d", "s", "/">>
CoversDir == <<"c", "o", "v", "e", "r", "s", "/">>

Spawn(kind, outcome) == Append(spawned, [kind |-> kind, outcome |-> outcome])

NoChild == [awaited |-> FALSE, running |-> 0]

\* the awaits of run() and of what it calls that wait for a child process
SpawnPoints == {"ensure", "probe", "remux", "cut", "cover"}

\* a promise that settles as soon as the child is spawned
AfterClose_OnSpawn(running) == running

\* spawnWithProgress, execFileAsync: the promise settles in the listener of
\* 'close', when the child has exited
AfterClose(running) == running - 1

\* the child run() awaited has closed
ChildClosed ==
  /\ child.awaited
  /\ child' = [awaited |-> FALSE, running |-> AfterClose(child.running)]

\* the constructor
Init ==
  /\ IdleServices
  /\ opts \in Options
  /\ pc = "ensure"
  /\ error = ""
  /\ dirs = FALSE
  /\ pending = IdlePending
  /\ probe = NoProbe
  /\ subtitleFiles = <<>>
  /\ fileIdx = 0
  /\ hits = <<>>
  /\ hitIdx = 0
  /\ videoPath = ""
  /\ processed = 0
  /\ cur = NoCur
  /\ movieClipCounts = [d \in AllDirs |-> 0]
  /\ metadataEntries = <<>>
  /\ manifest = NoManifest
  /\ spawned = <<>>
  /\ warned = {}
  /\ child = NoChild
  /\ scan = IdleScan
  /\ disk = NoDisk
  /\ srt = NoSrt

\* where run() goes after the version probe: spawnWithProgress settles only
\* on 'close'; it registers no 'error' listener, so a child that cannot be
\* spawned raises an uncaught 'error' event instead of rejecting
AfterVersionProbe(outcome) ==
  IF outcome = ExitOk THEN "mkdir"
  ELSE IF outcome = ExitNonZero THEN "failed"
  ELSE "crashed"

\* spawnWithProgress, execFileAsync: spawn(cmd, args); run() is suspended
\* until the promise settles
LaunchChild ==
  /\ pc \in SpawnPoints
  /\ ~child.awaited
  /\ child' = [awaited |-> TRUE, running |-> child.running + 1]
  /\ UNCHANGED <<opts, pc, error, dirs, pending, probe, subtitleFiles, fileIdx,
                 hits, hitIdx, videoPath, processed, cur, movieClipCounts,
                 metadataEntries, manifest, spawned, warned, scan, disk, srt, svcVars>>

\* run(): await ensureFfmpegAvailable(this.ffmpegPath)
EnsureFfmpegAvailable ==
  /\ ChildClosed
  /\ pc = "ensure"
  /\ \E outcome \in {ExitOk, ExitNonZero, SpawnFailed} :
       /\ spawned' = Spawn("version", outcome)
       /\ pc' = AfterVersionProbe(outcome)
       /\ error' = IF pc' = "failed" THEN "ffmpeg not found"
                   ELSE IF pc' = "crashed" THEN "uncaught spawn error"
                   ELSE ""
  /\ UNCHANGED <<opts, dirs, pending, probe, subtitleFiles, fileIdx, hits, hitIdx,
                 videoPath, processed, cur, movieClipCounts, metadataEntries,
                 manifest, warned, scan, disk, srt, svcVars>>

\* run(): the three fs.mkdir calls
MakeRunDirs ==
  /\ pc = "mkdir"
  /\ dirs' = TRUE
  /\ pc' = "collect"
  /\ UNCHANGED <<opts, error, pending, probe, subtitleFiles, fileIdx, hits, hitIdx,
                 videoPath, processed, cur, movieClipCounts, metadataEntries,
                 manifest, spawned, warned, child, scan, disk, srt, svcVars>>

\* collectSubtitleFiles: with options.subtitleFiles given, the requests are
\* resolved one by one; otherwise the media root is walked for .srt files
\* and for videos
CollectSubtitleFiles ==
  /\ pc = "collect"
  /\ \/ \E requested \in 1..MaxFiles :
          /\ pending' = [mode |-> "explicit", left |-> requested, candidates |-> 0]
          /\ subtitleFiles' = <<>>
          /\ pc' = "resolve"
     \/ \E existing \in SortedSrtLists :
          \E videos \in 0..(MaxFiles - Len(existing)) :
            /\ subtitleFiles' = existing
            /\ pending' = IF videos = 0 THEN IdlePending
                          ELSE [mode |-> "auto", left |-> videos, candidates |-> 0]
            /\ pc' = IF videos = 0 THEN "collected" ELSE "probe"
  /\ UNCHANGED <<opts, error, dirs, probe, fileIdx, hits, hitIdx, videoPath,
                 processed, cur, movieClipCounts, metadataEntries, manifest,
                 spawned, warned, child, scan, disk, srt, svcVars>>

\* resolveSubtitleSelection: the requested path exists, or it names a video
\* or has sibling videos (candidates) whose track is extracted, or nothing
ResolveSubtitleSelection ==
  /\ pc = "resolve"
  /\ IF pending.left = 0
     THEN /\ pending' = IdlePending
          /\ pc' = "collected"
          /\ UNCHANGED subtitleFiles
     ELSE \/ \E d \in AllDirs :
               /\ subtitleFiles' = Append(subtitleFiles, SrtFile(d))
               /\ pending' = [pending EXCEPT !.left = @ - 1]
               /\ pc' = "resolve"
          \/ \E c \in 0..MaxCandidates :
               /\ pending' = [pending EXCEPT !.left = @ - 1, !.candidates = c]
               /\ pc' = IF c = 0 THEN "resolve" ELSE "probe"
               /\ UNCHANGED subtitleFiles
  /\ probe' = NoProbe
  /\ UNCHANGED <<opts, error, dirs, fileIdx, hits, hitIdx, videoPath,
                 processed, cur, movieClipCounts, metadataEntries, manifest,
                 spawned, warned, child, scan, disk, srt, svcVars>>

\* extractSubtitleTrack returned to its caller: extractSubtitlesFromVideos
\* keeps a result and goes to the next video; resolveSubtitleSelection
\* returns a result and otherwise tries the next candidate
TrackReturned(extracted) ==
  /\ subtitleFiles' = IF extracted THEN Append(subtitleFiles, AutoFile)
                      ELSE subtitleFiles
  /\ IF pending.mode = "auto"
     THEN /\ pending' = IF pending.left = 1 THEN IdlePending
                        ELSE [pending EXCEPT !.left = @ - 1]
          /\ pc' = IF pending.left = 1 THEN "collected" ELSE "probe"
     ELSE IF extracted \/ pending.candidates = 1
          THEN /\ pending' = [pending EXCEPT !.candidates = 0]
               /\ pc' = "resolve"
          ELSE /\ pending' = [pending EXCEPT !.candidates = @ - 1]
               /\ pc' = "probe"

\* extractSubtitleTrack up to the remux: ffprobe lists the subtitle streams
\* (a failing ffprobe or unparsable output gives null), a stream is selected
\* and a selection that is not text-based is refused
ProbeStreams ==
  /\ ChildClosed
  /\ pc = "probe"
  /\ \/ \E streams \in StreamLists :
          /\ spawned' = Spawn("ffprobe", ExitOk)
          /\ probe' = [ran |-> TRUE, streams |-> streams,
                       selection |-> findSubtitleStreamIndex(streams)]
          /\ IF IsUsableSelection(probe'.selection)
             THEN pc' = "remux" /\ UNCHANGED <<pending, subtitleFiles>>
             ELSE TrackReturned(FALSE)
          /\ UNCHANGED error
     \/ /\ spawned' = Spawn("ffprobe", ExitNonZero)
        /\ probe' = [ran |-> TRUE, streams |-> <<>>, selection |-> NoSelection]
        /\ TrackReturned(FALSE)
        /\ UNCHANGED error
     \/ /\ spawned' = Spawn("ffprobe", SpawnFailed)
        /\ pc' = "crashed"
        /\ error' = "uncaught spawn error"
        /\ UNCHANGED <<probe, pending, subtitleFiles>>
  /\ UNCHANGED <<opts, dirs, fileIdx, hits, hitIdx, videoPath, processed, cur,
                 movieClipCounts, metadataEntries, manifest, warned,
                 scan, disk, srt, svcVars>>

\* extractSubtitleTrack: the remux of the selected stream into the cache; the
\* rejection of a remux that exits non-zero is caught nowhere up to run()
RemuxTrack ==
  /\ ChildClosed
  /\ pc = "remux"
  /\ \/ /\ spawned' = Spawn("remux", ExitOk)
        /\ TrackReturned(TRUE)
        /\ UNCHANGED error
     \/ /\ spawned' = Spawn("remux", ExitNonZero)
        /\ pc' = "failed"
        /\ error' = "ffmpeg exited with code 1"
        /\ UNCHANGED <<pending, subtitleFiles>>
  /\ probe' = NoProbe
  /\ UNCHANGED <<opts, dirs, fileIdx, hits, hitIdx, videoPath, processed, cur,
                 movieClipCounts, metadataEntries, manifest, warned,
                 scan, disk, srt, svcVars>>

\* run() without its check of the collected list
NoSubtitlesIsFatal_Never(files) == FALSE

\* run(): if (subtitleFiles.length === 0) throw
NoSubtitlesIsFatal(files) == Len(files) = 0

CheckSubtitleFiles ==
  /\ pc = "collected"
  /\ IF NoSubtitlesIsFatal(subtitleFiles)
     THEN /\ pc' = "failed"
          /\ error' = "No .srt files found"
          /\ UNCHANGED <<fileIdx, processed, probe>>
     ELSE /\ pc' = "files"
          /\ fileIdx' = 1
          /\ processed' = 0
          /\ probe' = NoProbe
          /\ UNCHANGED error
  /\ UNCHANGED <<opts, dirs, pending, subtitleFiles, hits, hitIdx, videoPath,
                 cur, movieClipCounts, metadataEntries, manifest, spawned, warned,
                 child, scan, disk, srt, svcVars>>

\* this.limit && processed >= this.limit (no limit is 0)
LimitReached == opts.limit # 0 /\ processed >= opts.limit

\* run(): the next subtitle file is read and scanned (findHits); a file
\* without hits is passed over
FindHits ==
  /\ pc = "files"
  /\ fileIdx <= Len(subtitleFiles)
  /\ ~LimitReached
  /\ \E h \in HitLists :
       /\ processed + Len(h) <= MaxHits
       /\ IF h = <<>>
          THEN hits' = hits /\ fileIdx' = fileIdx + 1 /\ pc' = "files"
          ELSE hits' = h /\ fileIdx' = fileIdx /\ pc' = "locate"
  /\ UNCHANGED <<opts, error, dirs, pending, probe, subtitleFiles, hitIdx, videoPath,
                 processed, cur, movieClipCounts, metadataEntries, manifest,
                 spawned, warned, child, scan, disk, srt, svcVars>>

\* locateVideo: the mapped video, else a sibling with the subtitle's base
\* name, else any video of the folder, else null
locateVideo(mapped, sibling, anyVideo) ==
  IF mapped THEN VideoFile
  ELSE IF sibling THEN VideoFile
  ELSE IF anyVideo THEN VideoFile
  ELSE ""

\* run() going on to the hits whether or not a video was found
AfterLocate_NoSkip(video) == "hits"

\* run(): a subtitle file whose video is not found is skipped
AfterLocate(video) == IF video = "" THEN "files" ELSE "hits"

LocateVideo ==
  /\ pc = "locate"
  /\ \E mapped \in BOOLEAN, sibling \in BOOLEAN, anyVideo \in BOOLEAN :
       /\ videoPath' = locateVideo(mapped, sibling, anyVideo)
       /\ pc' = AfterLocate(videoPath')
       /\ warned' = IF videoPath' = "" THEN warned \cup {fileIdx} ELSE warned
       /\ IF pc' = "files"
          THEN fileIdx' = fileIdx + 1 /\ hitIdx' = 0 /\ hits' = <<>>
          ELSE fileIdx' = fileIdx /\ hitIdx' = 1 /\ hits' = hits
  /\ UNCHANGED <<opts, error, dirs, pending, probe, subtitleFiles, processed,
                 cur, movieClipCounts, metadataEntries, manifest, spawned,
                 child, scan, disk, srt, svcVars>>

\* Math.max(a, b)
Max(a, b) == IF a >= b THEN a ELSE b

\* the window start without the clamp at 0
WindowStart_Unclamped(hit) == hit.start - opts.bufferUs

\* processHit: the window of a hit
WindowStart(hit) == Max(hit.start - opts.bufferUs, 0)
WindowEnd(hit) == hit.end + opts.bufferUs

\* relativeMovieDir of the subtitle file being processed
relativeMovieDir == subtitleFiles[fileIdx].dir

\* one counter shared by all movie folders
RECURSIVE SumCounts(_, _)
SumCounts(counts, ds) ==
  IF ds = {} THEN 0
  ELSE LET d == CHOOSE x \in ds : TRUE IN counts[d] + SumCounts(counts, ds \ {d})

NextIndex_Shared(counts, dir) == SumCounts(counts, DOMAIN counts) + 1

\* processHit: (this.movieClipCounts.get(relativeMovieDir) ?? 0) + 1
NextIndex(counts, dir) == counts[dir] + 1

\* the entry processHit pushes
Entry(c, summary) ==
  [file |-> VidsDir \o c.outputName,
   video |-> videoPath,
   subtitle |-> [dir |-> relativeMovieDir, file |-> fileIdx],
   start |-> roundNumber(c.startTime),
   end |-> roundNumber(c.endTime),
   processing_ms |-> c.processingMs,
   cover_image |-> c.coverImage,
   summary |-> summary]

\* processHit going on whatever the length of the window is
IsDegenerate_Never(startTime, endTime) == FALSE

\* processHit: if (duration <= 0) return
IsDegenerate(startTime, endTime) == endTime - startTime <= 0

\* processHit up to its first await: the window, the sequence counter and
\* the names; a dry run pushes the entry at once
ProcessHit ==
  /\ pc = "hits"
  /\ hitIdx <= Len(hits)
  /\ ~LimitReached
  /\ LET hit == hits[hitIdx]
         startTime == WindowStart(hit)
         endTime == WindowEnd(hit)
         nextIndex == NextIndex(movieClipCounts, relativeMovieDir)
         c == [startTime |-> startTime, endTime |-> endTime, nextIndex |-> nextIndex,
               outputName |-> buildOutputName(relativeMovieDir, nextIndex, startTime,
                                              opts.container),
               coverName |-> buildCoverName(relativeMovieDir, nextIndex, hit.start),
               processingMs |-> 0, coverImage |-> <<>>]
     IN  IF IsDegenerate(startTime, endTime)
         THEN /\ processed' = processed + 1
              /\ hitIdx' = hitIdx + 1
              /\ UNCHANGED <<pc, cur, movieClipCounts, metadataEntries>>
         ELSE /\ movieClipCounts' = [movieClipCounts EXCEPT ![relativeMovieDir] = nextIndex]
              /\ IF opts.dryRun
                 THEN /\ metadataEntries' = Append(metadataEntries, Entry(c, ""))
                      /\ processed' = processed + 1
                      /\ hitIdx' = hitIdx + 1
                      /\ UNCHANGED <<pc, cur>>
                 ELSE /\ cur' = c
                      /\ pc' = "cut"
                      /\ UNCHANGED <<metadataEntries, processed, hitIdx>>
  /\ UNCHANGED <<opts, error, dirs, pending, probe, subtitleFiles, fileIdx, hits,
                 videoPath, manifest, spawned, warned, child, scan, disk, srt, svcVars>>

\* run(): the hits of the file are exhausted, or the limit is reached
NextFile ==
  /\ pc = "hits"
  /\ hitIdx > Len(hits) \/ LimitReached
  /\ fileIdx' = fileIdx + 1
  /\ hits' = <<>>
  /\ hitIdx' = 0
  /\ videoPath' = ""
  /\ pc' = "files"
  /\ UNCHANGED <<opts, error, dirs, pending, probe, subtitleFiles, processed, cur,
                 movieClipCounts, metadataEntries, manifest, spawned, warned,
                 child, scan, disk, srt, svcVars>>

\* processHit catching the rejection of runFfmpeg
AfterCut_Caught(outcome) == "cover"

\* processHit: where it goes after the cut; the rejection of runFfmpeg is
\* not caught in processHit nor in run()
AfterCut(outcome) == IF outcome = ExitOk THEN "cover" ELSE "failed"

\* processHit: await runFfmpeg(...)
RunFfmpeg ==
  /\ ChildClosed
  /\ pc = "cut"
  /\ \E outcome \in {ExitOk, ExitNonZero}, ms \in ProcTimes :
       /\ spawned' = Spawn("cut", outcome)
       /\ pc' = AfterCut(outcome)
       /\ cur' = IF outcome = ExitOk THEN [cur EXCEPT !.processingMs = ms] ELSE cur
       /\ error' = IF pc' = "failed" THEN "ffmpeg exited with code 1" ELSE error
  /\ UNCHANGED <<opts, dirs, pending, probe, subtitleFiles, fileIdx, hits, hitIdx,
                 videoPath, processed, movieClipCounts, metadataEntries, manifest, warned,
                 scan, disk, srt, svcVars>>

\* processHit letting the rejection of captureCoverFrame through
AfterCover_Uncaught(outcome) == IF outcome = ExitOk THEN "hits" ELSE "failed"

\* processHit: the try/catch around captureCoverFrame logs the failure and
\* goes on
AfterCover(outcome) == "hits"

\* processHit: coverImageRelative is set only after a capture that succeeded
CoverImage(outcome, coverName) ==
  IF outcome = ExitOk THEN CoversDir \o coverName ELSE <<>>

\* processHit: the cover capture, whose failure is caught and logged, then
\* the push of the entry (maybeSummarizeClip returns undefined at once when
\* no OPENAI_API_KEY is set); run() counts the hit
CaptureCoverFrame ==
  /\ ChildClosed
  /\ pc = "cover"
  /\ \E outcome \in {ExitOk, ExitNonZero} :
       /\ spawned' = Spawn("cover", outcome)
       /\ pc' = AfterCover(outcome)
       /\ IF pc' = "hits"
          THEN /\ metadataEntries' =
                    Append(metadataEntries,
                           Entry([cur EXCEPT !.coverImage =
                                    CoverImage(outcome, cur.coverName)], ""))
               /\ cur' = NoCur
               /\ processed' = processed + 1
               /\ hitIdx' = hitIdx + 1
               /\ UNCHANGED error
          ELSE /\ error' = "ffmpeg exited with code 1"
               /\ UNCHANGED <<metadataEntries, cur, processed, hitIdx>>
  /\ UNCHANGED <<opts, dirs, pending, probe, subtitleFiles, fileIdx, hits,
                 videoPath, movieClipCounts, manifest, warned, scan, disk, srt, svcVars>>

\* buildMetadata counting the hits run() went through
buildMetadata_Processed ==
  [written |-> TRUE, total_clips |-> processed, clips |-> metadataEntries]

\* buildMetadata
buildMetadata ==
  [written |-> TRUE, total_clips |-> Len(metadataEntries), clips |-> metadataEntries]

\* run() leaving the loop over the subtitle files at any turn
RunIsOver_Early == TRUE

\* run(): the loop over the subtitle files ends after the last file, or at
\* the break once the limit is reached
RunIsOver == fileIdx > Len(subtitleFiles) \/ LimitReached

\* run(): after the last subtitle file, or once the limit is reached, the
\* manifest is built and written
FinishRun ==
  /\ pc = "files"
  /\ RunIsOver
  /\ manifest' = buildMetadata
  /\ pc' = "done"
  /\ UNCHANGED <<opts, error, dirs, pending, probe, subtitleFiles, fileIdx, hits,
                 hitIdx, videoPath, processed, cur, movieClipCounts, metadataEntries,
                 spawned, warned, child, scan, disk, srt, svcVars>>

Next ==
  \/ LaunchChild
  \/ EnsureFfmpegAvailable
  \/ MakeRunDirs
  \/ CollectSubtitleFiles
  \/ ResolveSubtitleSelection
  \/ ProbeStreams
  \/ RemuxTrack
  \/ CheckSubtitleFiles
  \/ FindHits
  \/ LocateVideo
  \/ ProcessHit
  \/ NextFile
  \/ RunFfmpeg
  \/ CaptureCoverFrame
  \/ FinishRun

Spec == Init /\ [][Next]_vars

(***************************************************************************)
(* Properties of a run.                                                    *)
(***************************************************************************)
\* the fields of a string between separators (String.prototype.split)
RECURSIVE Split(_, _)
Split(str, sep) ==
  IF \A i \in DOMAIN str : str[i] # sep THEN <<str>>
  ELSE LET i == CHOOSE x \in DOMAIN str :
                  str[x] = sep /\ \A y \in 1..(x - 1) : str[y] # sep
       IN  <<SubSeq(str, 1, i - 1)>> \o Split(SubSeq(str, i + 1, Len(str)), sep)

DigitValue(c) == (CHOOSE i \in 1..10 : DigitChars[i] = c) - 1

\* the number a string of digits writes
RECURSIVE ParseNat(_)
ParseNat(str) ==
  IF str = <<>> THEN 0
  ELSE 10 * ParseNat(SubSeq(str, 1, Len(str) - 1)) + DigitValue(str[Len(str)])

\* the sequence index an output filename carries: <slug>_<index>_<sec>_<ms>.<ext>
IndexInName(file) ==
  LET fields == Split(file, "_") IN ParseNat(fields[Len(fields) - 2])

LastSpawn == spawned[Len(spawned)]

CutsLaunched == {i \in DOMAIN spawned : spawned[i].kind = "cut"}

\* C11: when the cut succeeded and the cover capture exits non-zero, the
\* entry of the clip is pushed all the same, without cover image, the run
\* does not fail and goes on with the next hit
C11_CoverFailureKeepsEntry ==
  [][(/\ pc = "cover"
      /\ Len(spawned') = Len(spawned) + 1
      /\ spawned'[Len(spawned')] = [kind |-> "cover", outcome |-> ExitNonZero]) =>
       /\ LastSpawn = [kind |-> "cut", outcome |-> ExitOk]
       /\ Len(metadataEntries') = Len(metadataEntries) + 1
       /\ SubSeq(metadataEntries', 1, Len(metadataEntries)) = metadataEntries
       /\ metadataEntries'[Len(metadataEntries')].file = VidsDir \o cur.outputName
       /\ metadataEntries'[Len(metadataEntries')].cover_image = <<>>
       /\ metadataEntries'[Len(metadataEntries')].processing_ms = cur.processingMs
       /\ pc' = "hits"
       /\ hitIdx' = hitIdx + 1
       /\ error' = ""]_vars

\* a clip whose cover capture failed is in the manifest, followed by a clip
\* with a cover
C11_Witness ==
  /\ pc = "done"
  /\ Len(manifest.clips) = 2
  /\ manifest.clips[1].cover_image = <<>>
  /\ manifest.clips[1].processing_ms > 0
  /\ manifest.clips[2].cover_image # <<>>
  /\ \E i \in DOMAIN spawned : spawned[i] = [kind |-> "cover", outcome |-> ExitNonZero]

\* C1: within one run the output clip filenames are pairwise distinct
C1_DistinctOutputNames ==
  \A i, j \in DOMAIN metadataEntries :
    i # j => metadataEntries[i].file # metadataEntries[j].file

\* C2: for each movie folder, the k-th clip recorded for it carries index k
\* in its filename, whatever was recorded for other folders
C2_PerMovieIndices ==
  \A i \in DOMAIN metadataEntries :
    IndexInName(metadataEntries[i].file) =
      Cardinality({j \in 1..i : metadataEntries[j].subtitle.dir
                                  = metadataEntries[i].subtitle.dir})

\* two clips of one folder, then the first clip of a folder with another slug
C2_Witness ==
  /\ pc = "done"
  /\ \E i, j, k \in DOMAIN metadataEntries :
       /\ i < j /\ j < k
       /\ metadataEntries[i].subtitle.dir = metadataEntries[j].subtitle.dir
       /\ slugify(metadataEntries[k].subtitle.dir)
            # slugify(metadataEntries[i].subtitle.dir)
       /\ IndexInName(metadataEntries[j].file) = 2
       /\ IndexInName(metadataEntries[k].file) = 1

C4_State ==
  \A i \in CutsLaunched :
    spawned[i].outcome = ExitNonZero =>
      /\ i = Len(spawned)
      /\ pc = "failed"
      /\ error # ""
      /\ ~manifest.written
      /\ Len(metadataEntries)
           = Cardinality({j \in CutsLaunched : spawned[j].outcome = ExitOk})

\* C4: a cut that exits non-zero makes run() fail at that hit: no entry is
\* pushed for the hit, no child process is launched after it, no manifest is
\* written, and nothing happens once run() has failed
C4_CutFailureAborts ==
  [](C4_State) /\ [][pc # "failed"]_vars

\* a cut fails after a clip was recorded and with hits still to come
C4_Witness ==
  /\ pc = "failed"
  /\ LastSpawn.kind = "cut" /\ LastSpawn.outcome = ExitNonZero
  /\ Len(metadataEntries) = 1
  /\ hitIdx < Len(hits)
  /\ fileIdx < Len(subtitleFiles)

\* C5: in auto-discovery a probe or a remux that exits non-zero does not make
\* run() fail
C5_TrackFailureSkipped ==
  (/\ spawned # <<>>
   /\ LastSpawn.kind \in {"ffprobe", "remux"}
   /\ LastSpawn.outcome = ExitNonZero) => pc # "failed"

\* a successful probe of a container without English stream has just returned
ProbedWithoutEnglish ==
  /\ probe.ran
  /\ spawned # <<>> /\ LastSpawn.kind = "ffprobe" /\ LastSpawn.outcome = ExitOk
  /\ \A i \in DOMAIN probe.streams : ~IsEnglish(probe.streams[i])

IsTextStream(stream) == stream.codec_name \in TextCodecs

\* C6 as claimed: without English stream the first stream with a text-based
\* codec is selected, and the track fails only when there is none
C6_FirstTextCodec ==
  ProbedWithoutEnglish =>
    LET t == FindFirst({i \in DOMAIN probe.streams : IsTextStream(probe.streams[i])})
    IN  IF t # 0
        THEN /\ probe.selection = Selected(probe.streams[t])
             /\ pc = "remux"
        ELSE pc # "remux"

\* C6 as amended: without English stream the first subrip stream is selected
\* and, when there is none, the first stream whatever its codec; the track
\* is extracted exactly when a stream was selected and its codec is absent
\* or text-based
C6_SubripThenFirstStream ==
  ProbedWithoutEnglish =>
    LET streams == probe.streams
        subrips == {i \in DOMAIN streams : streams[i].codec_name = "subrip"}
    IN  /\ subrips # {} =>
             \E i \in subrips :
               /\ \A j \in subrips : i <= j
               /\ probe.selection = [found |-> TRUE, index |-> streams[i].index,
                                     codec |-> "subrip"]
        /\ (subrips = {} /\ streams # <<>>) =>
             probe.selection = [found |-> TRUE, index |-> streams[1].index,
                                codec |-> streams[1].codec_name]
        /\ streams = <<>> => ~probe.selection.found
        /\ (pc = "remux") <=>
             (probe.selection.found
                /\ probe.selection.codec \in TextCodecs \cup {""})

\* an image-based stream ahead of a text-based one and a second stream that
\* is subrip, both probed
C6_Witness ==
  /\ ProbedWithoutEnglish
  /\ Len(probe.streams) = 2
  /\ \/ /\ probe.streams[1].codec_name = "hdmv_pgs_subtitle"
        /\ probe.streams[2].codec_name = "ass"
        /\ probe.selection.index = probe.streams[1].index
        /\ pc # "remux"
     \/ /\ probe.streams[1].codec_name = "ass"
        /\ probe.streams[2].codec_name = "subrip"
        /\ probe.selection.index = probe.streams[2].index
        /\ pc = "remux"

\* C7: whenever the probed list holds a stream whose language starts with
\* "en" in any letter case, the first such stream is the one selected
C7_EnglishFirst ==
  (/\ probe.ran
   /\ \E i \in DOMAIN probe.streams : IsEnglish(probe.streams[i])) =>
    \E i \in DOMAIN probe.streams :
      /\ IsEnglish(probe.streams[i])
      /\ \A j \in 1..(i - 1) : ~IsEnglish(probe.streams[j])
      /\ probe.selection = [found |-> TRUE, index |-> probe.streams[i].index,
                            codec |-> probe.streams[i].codec_name]

\* a French subrip stream ahead of an English ass stream: the second is selected
C7_Witness ==
  /\ probe.ran
  /\ Len(probe.streams) = 2
  /\ probe.streams[1].language = <<"f", "r", "e">>
  /\ probe.streams[1].codec_name = "subrip"
  /\ probe.streams[2].language = <<"E", "N", "G">>
  /\ probe.streams[2].codec_name = "ass"
  /\ probe.selection.index = probe.streams[2].index

\* C8: a version probe that fails makes run() fail with "ffmpeg not found"
\* before any directory is made, any subtitle looked for and any manifest
\* written
C8_FfmpegNotFound ==
  (spawned # <<>> /\ spawned[1].outcome # ExitOk) =>
    /\ pc = "failed"
    /\ error = "ffmpeg not found"
    /\ ~dirs
    /\ subtitleFiles = <<>> /\ fileIdx = 0
    /\ ~manifest.written

PastCollection == pc \in {"files", "locate", "hits", "cut", "cover", "done"}

\* C9: when collectSubtitleFiles returns no file, run() fails at once with
\* the no-subtitles message: no hit is processed, no cut is launched, no
\* manifest is written, and run() never goes on with an empty list
C9_NoSubtitlesFailsFast ==
  /\ [](PastCollection => subtitleFiles # <<>>)
  /\ [][(pc = "collected" /\ subtitleFiles = <<>>) =>
          /\ pc' = "failed"
          /\ error' = "No .srt files found"
          /\ processed' = 0 /\ metadataEntries' = <<>>
          /\ CutsLaunched' = {}
          /\ ~manifest'.written]_vars
  /\ [][pc # "failed"]_vars

\* the only video has an image-based track, there is no .srt file, and run()
\* has failed
C9_Witness ==
  /\ pc = "failed"
  /\ error = "No .srt files found"
  /\ probe.ran
  /\ probe.selection.codec = "hdmv_pgs_subtitle"

\* C10: a subtitle file with hits whose video is not found is skipped: no
\* entry, no counter change and no child process for it; run() goes on with
\* the next file, and a run that ends writes the manifest of what it recorded
C10_MissingVideoSkipped ==
  /\ [][(pc = "locate" /\ videoPath' = "") =>
          /\ hits # <<>>
          /\ pc' = "files"
          /\ fileIdx' = fileIdx + 1
          /\ error' = ""
          /\ UNCHANGED <<metadataEntries, movieClipCounts, spawned, processed>>]_vars
  /\ [](pc = "done" =>
          /\ manifest.written
          /\ manifest.clips = metadataEntries
          /\ \A f \in warned :
               \A i \in DOMAIN metadataEntries : metadataEntries[i].subtitle.file # f)

\* the first file was skipped, the second gave a clip, the manifest is written
C10_Witness ==
  /\ pc = "done"
  /\ 1 \in warned
  /\ manifest.written
  /\ \E i \in DOMAIN manifest.clips : manifest.clips[i].subtitle.file = 2

\* C12: in every manifest written, total_clips is the number of entries of
\* clips, whatever hits were recorded, dropped or skipped
C12_TotalClipsIsLength ==
  manifest.written => manifest.total_clips = Len(manifest.clips)

\* a manifest of a run that recorded a clip, dropped a hit whose window was
\* empty and skipped a file without video
C12_Witness ==
  /\ pc = "done"
  /\ manifest.written
  /\ Len(manifest.clips) >= 1
  /\ processed > Len(manifest.clips)
  /\ warned # {}

C14_OneChildAtATime ==
  /\ [](child.running <= 1)
  /\ [](child.running = 1 <=> child.awaited)
  /\ [](child.awaited => pc \in SpawnPoints)
  /\ [][child.awaited => (~child'.awaited /\ Len(spawned') = Len(spawned) + 1)]_vars
  /\ [][fileIdx' # fileIdx =>
          /\ fileIdx' = fileIdx + 1
          /\ child.running = 0 /\ child'.running = 0
          /\ pc = "hits" => (hitIdx > Len(hits) \/ LimitReached)]_vars
  /\ [][hitIdx' # hitIdx => (hitIdx' = hitIdx + 1 \/ fileIdx' # fileIdx \/ pc = "locate")]_vars
  /\ [](\A i, j \in DOMAIN metadataEntries :
          i < j => metadataEntries[i].subtitle.file <= metadataEntries[j].subtitle.file)

\* the cover capture of a clip of the second file is running, after the
\* version probe, a track extraction and the cuts and covers of earlier clips
C14_Witness ==
  /\ pc = "cover"
  /\ child.running = 1
  /\ fileIdx = 2
  /\ metadataEntries # <<>>
  /\ \E i \in DOMAIN spawned : spawned[i].kind = "remux"
  /\ \E i \in DOMAIN spawned : spawned[i].kind = "cover"

\* C15: a run with limit n ends with at most n clips in its manifest, and
\* with exactly n when it met at least n hits whose video was located
C15_LimitIsClipCount ==
  (pc = "done" /\ opts.limit # 0) =>
    /\ Len(manifest.clips) <= opts.limit
    /\ processed >= opts.limit => Len(manifest.clips) = opts.limit

\* C16: in a dry run no child process is launched from the start of run()
\* to its end, and every entry recorded has processing_ms 0 and no cover
C16_DryRunLaunchesNothing ==
  opts.dryRun =>
    /\ spawned = <<>>
    /\ child.running = 0
    /\ \A i \in DOMAIN metadataEntries :
         /\ metadataEntries[i].processing_ms = 0
         /\ metadataEntries[i].cover_image = <<>>

(***************************************************************************)
(* hitsForBlock: the scan of one block's text with the query regex.        *)
(*                                                                         *)
(* A query is a sequence of atoms, each one character, plain or starred,   *)
(* matched greedily with backtracking as RegExp does.  Text positions are  *)
(* 0-based as in JavaScript.                                               *)
(***************************************************************************)
TextChars == {"a", "b"}
Atoms == [ch : TextChars, star : BOOLEAN]
Patterns == UNION {[1..n -> Atoms] : n \in 1..MaxPatternLen}
Texts == UNION {[1..n -> TextChars] : n \in 0..MaxTextLen}

(***************************************************************************)
(* The times of a block and of a hit are JavaScript Numbers: binary        *)
(* floating point with a significand of 53 bits, every operation rounded   *)
(* to the nearest value, ties to the even significand.  The model counts   *)
(* in microseconds; at 53 bits no time it holds is long enough to be       *)
(* rounded, so a scan is also followed at ScaledBits bits, where a time of *)
(* a few seconds rounds as a time of sixteen digits does at 53.            *)
(***************************************************************************)
Binary64Bits == 53
ScaledBits == 4
Significands == {ScaledBits, Binary64Bits}

RECURSIVE BitLength(_)
BitLength(n) == IF n = 0 THEN 0 ELSE 1 + BitLength(n \div 2)

RECURSIVE Pow2(_)
Pow2(n) == IF n = 0 THEN 1 ELSE 2 * Pow2(n - 1)

\* the Number nearest to num / den
RoundToNumber(num, den, bits) ==
  LET wide == BitLength(num \div den)
      unit == den * Pow2(IF wide > bits THEN wide - bits ELSE 0)
      k == num \div unit
      rest == num - k * unit
      up == 2 * rest > unit \/ (2 * rest = unit /\ k % 2 = 1)
  IN  ((IF up THEN k + 1 ELSE k) * unit) \div den

\* parseTimestamp: the Number of a timestamp of the subtitle file
parseTimestamp(us, bits) == RoundToNumber(us, 1, bits)

BlockStarts == {3000000, 10000000}
BlockEnds == {8000000, 10000000, 12000000}
Blocks == [start : BlockStarts, end : BlockEnds, text : Texts]

\* the block and the query of the scenario of the specification:
\* 00:00:10,000 --> 00:00:12,000, 'hello dino world', 'dino'
ScenarioBlock ==
  [start |-> 10000000, end |-> 12000000,
   text |-> <<"h", "e", "l", "l", "o", " ", "d", "i", "n", "o", " ",
              "w", "o", "r", "l", "d">>]
ScenarioPattern ==
  <<[ch |-> "d", star |-> FALSE], [ch |-> "i", star |-> FALSE],
    [ch |-> "n", star |-> FALSE], [ch |-> "o", star |-> FALSE]>>
ScenarioBufferUs == 400000

ScanInputs ==
  [block : Blocks, pattern : Patterns, bits : Significands]
    \cup {[block |-> ScenarioBlock, pattern |-> ScenarioPattern,
           bits |-> Binary64Bits]}

\* how many times ch is repeated in text from position i on
RECURSIVE RunLength(_, _, _)
RunLength(text, i, ch) ==
  IF i < Len(text) /\ text[i + 1] = ch THEN 1 + RunLength(text, i + 1, ch) ELSE 0

\* the end of the match of pattern[k..] that starts at position i, -1 if none
RECURSIVE MatchEnd(_, _, _, _)
MatchEnd(pattern, k, text, i) ==
  IF k > Len(pattern) THEN i
  ELSE IF ~pattern[k].star
  THEN IF i < Len(text) /\ text[i + 1] = pattern[k].ch
       THEN MatchEnd(pattern, k + 1, text, i + 1)
       ELSE -1
  ELSE LET good == {n \in 0..RunLength(text, i, pattern[k].ch) :
                      MatchEnd(pattern, k + 1, text, i + n) # -1}
       IN  IF good = {} THEN -1
           ELSE MatchEnd(pattern, k + 1, text,
                         i + CHOOSE n \in good : \A m \in good : m <= n)

\* RegExp.prototype.exec of a global regex: the first match at or after
\* lastIndex, and lastIndex set to the end of the match; null (found FALSE)
\* and lastIndex 0 when there is none
exec(pattern, text, lastIndex) ==
  LET starts == {j \in lastIndex..Len(text) : MatchEnd(pattern, 1, text, j) # -1}
  IN  IF starts = {}
      THEN [found |-> FALSE, index |-> 0, length |-> 0, lastIndex |-> 0]
      ELSE LET j == CHOOSE x \in starts : \A y \in starts : x <= y
               e == MatchEnd(pattern, 1, text, j)
           IN  [found |-> TRUE, index |-> j, length |-> e - j, lastIndex |-> e]

\* hitsForBlock: const matchLength = match[0].length || 1
MatchLength(length) == IF length = 0 THEN 1 ELSE length

\* hitsForBlock: if (matchLength === 0) regex.lastIndex += 1
AdvanceLastIndex(lastIndex, matchLength) ==
  IF matchLength = 0 THEN lastIndex + 1 ELSE lastIndex

\* hitsForBlock: block.start + duration * (offset / textLength); the quotient
\* is kept exact and the product rounded once, which is what the code
\* computes for the quotients 0 and 1 of a match of the whole text
HitTime_NoOffset(block, offset, bits) == block.start

HitTime(block, offset, bits) ==
  LET duration == RoundToNumber(block.end - block.start, 1, bits)
      part == RoundToNumber(duration * offset, Len(block.text), bits)
  IN  RoundToNumber(block.start + part, 1, bits)

\* a scan that ends finds at most one match per position of the text and one
\* at its end; the model follows a scan no further than one match more
ScanCap(text) == Len(text) + 2

\* no run of the extractor under way
IdleRunVars ==
  /\ pc = "idle"
  /\ error = ""
  /\ dirs = FALSE
  /\ pending = IdlePending
  /\ probe = NoProbe
  /\ subtitleFiles = <<>>
  /\ fileIdx = 0
  /\ hits = <<>>
  /\ hitIdx = 0
  /\ videoPath = ""
  /\ processed = 0
  /\ cur = NoCur
  /\ movieClipCounts = [d \in AllDirs |-> 0]
  /\ metadataEntries = <<>>
  /\ manifest = NoManifest
  /\ spawned = <<>>
  /\ warned = {}
  /\ child = NoChild

IdleRun ==
  /\ opts = [dryRun |-> FALSE, limit |-> 0, container |-> <<"m", "k", "v">>,
             bufferUs |-> 0]
  /\ IdleRunVars

\* a block as parseSrt hands it to hitsForBlock, and the query
EnteredScan(input) ==
  [pc |-> "enter",
   block |-> [start |-> parseTimestamp(input.block.start, input.bits),
              end |-> parseTimestamp(input.block.end, input.bits),
              text |-> input.block.text],
   pattern |-> input.pattern, bits |-> input.bits,
   lastIndex |-> 0, matches |-> <<>>]

InitScan ==
  /\ IdleServices
  /\ IdleRun
  /\ disk = NoDisk
  /\ srt = NoSrt
  /\ \E input \in ScanInputs : scan = EnteredScan(input)

\* hitsForBlock up to the loop: no scan of a block without duration or text
EnterHitsForBlock ==
  /\ scan.pc = "enter"
  /\ scan' = [scan EXCEPT !.pc =
                IF scan.block.end - scan.block.start <= 0 \/ Len(scan.block.text) = 0
                THEN "returned" ELSE "scanning"]
  /\ UNCHANGED <<runVars, disk, srt, svcVars>>

\* one turn of the while loop: exec, and the body when it matched
ScanStep ==
  /\ scan.pc = "scanning"
  /\ Len(scan.matches) < ScanCap(scan.block.text)
  /\ LET match == exec(scan.pattern, scan.block.text, scan.lastIndex)
         matchLength == MatchLength(match.length)
     IN  IF ~match.found
         THEN scan' = [scan EXCEPT !.pc = "returned", !.lastIndex = match.lastIndex]
         ELSE scan' = [scan EXCEPT
                         !.matches = Append(@,
                           [index |-> match.index, matchLength |-> matchLength,
                            start |-> HitTime(scan.block, match.index, scan.bits),
                            end |-> HitTime(scan.block, match.index + matchLength,
                                            scan.bits)]),
                         !.lastIndex = AdvanceLastIndex(match.lastIndex, matchLength)]
  /\ UNCHANGED <<runVars, disk, srt, svcVars>>

NextScan == EnterHitsForBlock \/ ScanStep

SpecScan == InitScan /\ [][NextScan]_vars

\* C3: the match scan terminates for every pattern: every turn of the loop
\* that finds a match leaves the scan cursor further on, by one code unit
\* when the match is empty
C3_ScanCursorAdvances ==
  [][(scan.pc = "scanning" /\ scan'.pc = "scanning")
       => scan'.lastIndex > scan.lastIndex]_vars

\* a match of the whole text of the block
IsWholeText(m) == m.index = 0 /\ m.matchLength = Len(scan.block.text)

\* C19: for every block with end > start and a text that is not empty, the
\* hit of a match of the whole text starts at the start of the block and
\* ends at the end of the block
C19_WholeTextHitIsBlock ==
  \A i \in 1..Len(scan.matches) :
    IsWholeText(scan.matches[i]) =>
      /\ scan.matches[i].start = scan.block.start
      /\ scan.matches[i].end = scan.block.end
(***************************************************************************)
(* metadata.yaml: serializeMetadata writes it, MetadataIndexService reads   *)
(* it back with the parse function of the yaml package (YAML 1.2 core       *)
(* schema).  A file is a sequence of lines, each a key and the text of its  *)
(* scalar; the fields kept are one of each kind serializeMetadata writes:   *)
(* through yamlString (query, file, cover_image), bare (container), a       *)
(* number (total_clips, processing_ms) and an optional one (cover_image).   *)
(***************************************************************************)
MaxClips == 2

\* the character class [A-Za-z0-9_./-]
IsPlainChar(c) ==
  \/ c \in LowerLetters \/ c \in UpperLetters \/ IsDigitChar(c)
  \/ c \in {"_", ".", "/", "-"}

\* JSON.stringify of a string: the characters between double quotes, the
\* quote and the backslash escaped
RECURSIVE Escape(_)
Escape(value) ==
  IF value = <<>> THEN <<>>
  ELSE (IF Head(value) \in {"\"", "\\"} THEN <<"\\", Head(value)>> ELSE <<Head(value)>>)
         \o Escape(Tail(value))

stringify(value) == <<"\"">> \o Escape(value) \o <<"\"">>

\* yamlString: /^[A-Za-z0-9_./-]+$/.test(value) ? value : JSON.stringify(value)
yamlString(value) ==
  IF value # <<>> /\ \A i \in DOMAIN value : IsPlainChar(value[i])
  THEN value
  ELSE stringify(value)

Line(key, text) == [key |-> key, text |-> text]

\* serializeMetadata: the lines of one clip
ClipLines(clip) ==
  <<Line("- file", yamlString(clip.file)),
    Line("processing_ms", Digits(clip.processing_ms))>>
    \o (IF clip.cover_image # <<>>
        THEN <<Line("cover_image", yamlString(clip.cover_image))>>
        ELSE <<>>)

RECURSIVE AllClipLines(_)
AllClipLines(clips) ==
  IF clips = <<>> THEN <<>>
  ELSE ClipLines(Head(clips)) \o AllClipLines(Tail(clips))

\* serializeMetadata
serializeMetadata(metadata) ==
  <<Line("query", yamlString(metadata.query)),
    Line("container", metadata.container),
    Line("total_clips", Digits(metadata.total_clips)),
    Line("clips", <<>>)>>
    \o AllClipLines(metadata.clips)

\* the values of a parsed document
Str(text) == [type |-> "string", text |-> text]
Num(text) == [type |-> "number", text |-> text]
Bool(text) == [type |-> "boolean", text |-> toLowerCase(text)]
Null == [type |-> "null", text |-> <<>>]
Absent == [type |-> "undefined", text |-> <<>>]

\* a double-quoted scalar: the characters between the quotes, unescaped
RECURSIVE Unescape(_)
Unescape(text) ==
  IF text = <<>> THEN <<>>
  ELSE IF Head(text) = "\\" /\ Len(text) >= 2
       THEN <<text[2]>> \o Unescape(SubSeq(text, 3, Len(text)))
       ELSE <<Head(text)>> \o Unescape(Tail(text))

AllDigits(text) == text # <<>> /\ \A i \in DOMAIN text : IsDigitChar(text[i])

\* core schema: [-+]?[0-9]+
IsIntText(text) ==
  \/ AllDigits(text)
  \/ Len(text) >= 2 /\ Head(text) \in {"-", "+"} /\ AllDigits(Tail(text))

\* core schema: digits with a fraction (the part of the float syntax that
\* the strings of the model can take)
IsFloatText(text) ==
  \E k \in DOMAIN text :
    /\ text[k] = "."
    /\ AllDigits(SubSeq(text, 1, k - 1))
    /\ AllDigits(SubSeq(text, k + 1, Len(text)))

BoolTexts ==
  {<<"t", "r", "u", "e">>, <<"f", "a", "l", "s", "e">>}

NullTexts == {<<"n", "u", "l", "l">>}

\* parse: the value of the scalar of a line; a plain scalar is resolved by
\* its look, a double-quoted one is a string, an empty one is null
ResolveScalar(text) ==
  IF text = <<>> THEN Null
  ELSE IF Head(text) = "\"" THEN Str(Unescape(SubSeq(text, 2, Len(text) - 1)))
  ELSE IF text \in BoolTexts THEN Bool(text)
  ELSE IF text \in NullTexts THEN Null
  ELSE IF IsIntText(text) \/ IsFloatText(text) THEN Num(text)
  ELSE Str(text)

\* the scalar of the first line with a key, Absent without such a line
Field(lines, key) ==
  IF \E i \in DOMAIN lines : lines[i].key = key
  THEN LET i == CHOOSE x \in DOMAIN lines :
                  lines[x].key = key /\ \A y \in 1..(x - 1) : lines[y].key # key
       IN  ResolveScalar(lines[i].text)
  ELSE Absent

\* the length of the block of lines of the item that starts a sequence
ItemLength(lines) ==
  IF \E i \in 2..Len(lines) : lines[i].key = "- file"
  THEN (CHOOSE i \in 2..Len(lines) :
          lines[i].key = "- file" /\ \A j \in 2..(i - 1) : lines[j].key # "- file") - 1
  ELSE Len(lines)

\* parse: the items of the block sequence under clips
RECURSIVE ParseItems(_)
ParseItems(lines) ==
  IF lines = <<>> THEN <<>>
  ELSE LET n == ItemLength(lines)
           item == SubSeq(lines, 1, n)
       IN  <<[file |-> Field(item, "- file"),
              processing_ms |-> Field(item, "processing_ms"),
              cover_image |-> Field(item, "cover_image")]>>
             \o ParseItems(SubSeq(lines, n + 1, Len(lines)))

TopLines == 4

\* parse(raw): the document as a mapping; a key followed by nothing is null
ParseDocument(lines) ==
  LET top == SubSeq(lines, 1, TopLines)
      rest == SubSeq(lines, TopLines + 1, Len(lines))
  IN  [query |-> Field(top, "query"),
       container |-> Field(top, "container"),
       total_clips |-> Field(top, "total_clips"),
       clips |-> [isNull |-> rest = <<>>, items |-> ParseItems(rest)]]

\* the ClipRunMetadata object as the values its fields hold
ValueOf(metadata) ==
  [query |-> Str(metadata.query),
   container |-> Str(metadata.container),
   total_clips |-> Num(Digits(metadata.total_clips)),
   clips |-> [isNull |-> FALSE,
              items |-> [i \in DOMAIN metadata.clips |->
                           [file |-> Str(metadata.clips[i].file),
                            processing_ms |-> Num(Digits(metadata.clips[i].processing_ms)),
                            cover_image |->
                              IF metadata.clips[i].cover_image = <<>> THEN Absent
                              ELSE Str(metadata.clips[i].cover_image)]]]]

\* queries: a word, digits only, the letters of true and of null, a
\* fraction, a phrase with a space, a phrase with a quote
Queries ==
  {<<"d", "i", "n", "o">>, <<"1", "2", "3">>, <<"t", "r", "u", "e">>,
   <<"n", "u", "l", "l">>, <<"1", ".", "5">>, <<"a", " ", "b">>, <<"a", "\"">>}

\* entries as processHit pushes them
ClipPool ==
  {[file |-> VidsDir \o buildOutputName(<<"c">>, 1, 0, <<"m", "k", "v">>),
    processing_ms |-> 0, cover_image |-> <<>>],
   [file |-> VidsDir \o buildOutputName(<<"c">>, 2, 10351000, <<"m", "k", "v">>),
    processing_ms |-> 842,
    cover_image |-> CoversDir \o buildCoverName(<<"c">>, 2, 10750500)],
   [file |-> VidsDir \o buildOutputName(<<"A", " ", "b">>, 1, 0, <<"m", "p", "4">>),
    processing_ms |-> 7, cover_image |-> <<>>]}

ClipLists == UNION {[1..n -> ClipPool] : n \in 0..MaxClips}

\* nothing read yet
NoParsed ==
  [query |-> Absent, container |-> Absent, total_clips |-> Absent,
   clips |-> [isNull |-> TRUE, items |-> <<>>]]

InitYaml ==
  /\ IdleServices
  /\ IdleRun
  /\ scan = IdleScan
  /\ srt = NoSrt
  /\ \E query \in Queries, clips \in ClipLists, container \in Containers :
       disk = [pc |-> "built",
               metadata |-> [query |-> query, container |-> container,
                             total_clips |-> Len(clips), clips |-> clips],
               lines |-> <<>>,
               parsed |-> NoParsed,
               kept |-> FALSE]

\* writeMetadata: fs.writeFile(metadataPath, serializeMetadata(metadata))
WriteMetadata ==
  /\ disk.pc = "built"
  /\ disk' = [disk EXCEPT !.pc = "written", !.lines = serializeMetadata(disk.metadata)]
  /\ UNCHANGED <<runVars, scan, srt, svcVars>>

\* loadRunsFromDisk: parse(raw); if (parsed?.clips) results.push(parsed)
LoadRunsFromDisk ==
  /\ disk.pc = "written"
  /\ LET parsed == ParseDocument(disk.lines)
     IN  disk' = [disk EXCEPT !.pc = "loaded", !.parsed = parsed,
                              !.kept = ~parsed.clips.isNull]
  /\ UNCHANGED <<runVars, scan, srt, svcVars>>

NextYaml == WriteMetadata \/ LoadRunsFromDisk

SpecYaml == InitYaml /\ [][NextYaml]_vars

\* C17: a manifest written and read back has every field equal to the
\* original one, and its total_clips equal to the length of the clips read
C17_ManifestRoundTrip ==
  disk.pc = "loaded" =>
    /\ disk.parsed = ValueOf(disk.metadata)
    /\ ~disk.parsed.clips.isNull
    /\ disk.parsed.total_clips = Num(Digits(Len(disk.parsed.clips.items)))
(***************************************************************************)
(* processHit: the window of one hit, for hits and buffers of any size.    *)
(***************************************************************************)
\* hit starts, hit widths and buffers in microseconds
WindowStarts == {0, 100000, 200000, 300000, 400000, 10750500}
WindowWidths == {0, 1000, 500000}
WindowBuffers == {-300000, 0, 300000, 400000}

InitWindow ==
  /\ IdleServices
  /\ \E start \in WindowStarts, width \in WindowWidths, bufferUs \in WindowBuffers :
       /\ opts = [dryRun |-> TRUE, limit |-> 0, container |-> <<"m", "k", "v">>,
                  bufferUs |-> bufferUs]
       /\ hits = <<[start |-> start, end |-> start + width]>>
  /\ pc = "window"
  /\ hitIdx = 1
  /\ error = ""
  /\ dirs = FALSE
  /\ pending = IdlePending
  /\ probe = NoProbe
  /\ subtitleFiles = <<>>
  /\ fileIdx = 0
  /\ videoPath = ""
  /\ processed = 0
  /\ cur = NoCur
  /\ movieClipCounts = [d \in AllDirs |-> 0]
  /\ metadataEntries = <<>>
  /\ manifest = NoManifest
  /\ spawned = <<>>
  /\ warned = {}
  /\ child = NoChild
  /\ scan = IdleScan
  /\ disk = NoDisk
  /\ srt = NoSrt

\* processHit: startTime, endTime, and the return when duration <= 0
ComputeWindow ==
  /\ pc = "window"
  /\ LET hit == hits[hitIdx]
         startTime == WindowStart(hit)
         endTime == WindowEnd(hit)
     IN  /\ cur' = [NoCur EXCEPT !.startTime = startTime, !.endTime = endTime]
         /\ pc' = IF endTime - startTime <= 0 THEN "dropped" ELSE "windowed"
  /\ UNCHANGED <<opts, error, dirs, pending, probe, subtitleFiles, fileIdx, hits,
                 hitIdx, videoPath, processed, movieClipCounts, metadataEntries,
                 manifest, spawned, warned, child, scan, disk, srt, svcVars>>

NextWindow == ComputeWindow

SpecWindow == InitWindow /\ [][NextWindow]_vars

Min(a, b) == IF a <= b THEN a ELSE b

WindowComputed == pc \in {"windowed", "dropped"} /\ opts.bufferUs >= 0

BlockBuffers == {0, ScenarioBufferUs}

InitBlock ==
  /\ IdleServices
  /\ IdleRunVars
  /\ disk = NoDisk
  /\ srt = NoSrt
  /\ \E input \in ScanInputs, bufferUs \in BlockBuffers :
       /\ opts = [dryRun |-> TRUE, limit |-> 0, container |-> <<"m", "k", "v">>,
                  bufferUs |-> bufferUs]
       /\ scan = EnteredScan(input)

\* findHits: the hits of the block, in the order hitsForBlock found them,
\* and run() going on to the first of them
CollectBlockHits ==
  /\ pc = "idle"
  /\ scan.pc = "returned"
  /\ scan.matches # <<>>
  /\ hits' = [i \in 1..Len(scan.matches) |->
               [start |-> scan.matches[i].start, end |-> scan.matches[i].end]]
  /\ hitIdx' = 1
  /\ pc' = "window"
  /\ UNCHANGED <<opts, error, dirs, pending, probe, subtitleFiles, fileIdx,
                 videoPath, processed, cur, movieClipCounts, metadataEntries,
                 manifest, spawned, warned, child, scan, disk, srt, svcVars>>

NextBlock == EnterHitsForBlock \/ ScanStep \/ CollectBlockHits \/ ComputeWindow

SpecBlock == InitBlock /\ [][NextBlock]_vars

\* the scenario: its block, its query and its buffer, in binary64
InScenario ==
  /\ scan.block = ScenarioBlock
  /\ scan.pattern = ScenarioPattern
  /\ scan.bits = Binary64Bits
  /\ opts.bufferUs = ScenarioBufferUs

\* C20: the block 00:00:10,000 --> 00:00:12,000 with the text
\* 'hello dino world', the query 'dino' and a buffer of 400 ms give exactly
\* one hit, from 10.75 s to 11.25 s, and its window is from 10.35 s to
\* 11.65 s
C20_ScenarioWindow ==
  InScenario =>
    /\ scan.pc = "returned" =>
         /\ Len(scan.matches) = 1
         /\ scan.matches[1].index = 6
         /\ scan.matches[1].index + scan.matches[1].matchLength = 10
         /\ scan.matches[1].start = 10750000
         /\ scan.matches[1].end = 11250000
    /\ pc # "idle" => hits = <<[start |-> 10750000, end |-> 11250000]>>
    /\ pc \in {"windowed", "dropped"} =>
         /\ pc = "windowed"
         /\ cur.startTime = 10350000
         /\ cur.endTime = 11650000

\* the window of the hit of the scenario has been computed
C20_Witness ==
  /\ InScenario
  /\ Len(scan.block.text) = 16
  /\ scan.pc = "returned"
  /\ Len(hits) = 1
  /\ pc = "windowed"
  /\ cur.endTime - cur.startTime = 1300000

(***************************************************************************)
(* parseSrt: the contents of a subtitle file are split at blank lines into *)
(* chunks, and every chunk with a timing line, two timestamps and a text   *)
(* becomes a block.  A file is a string of characters.  The files followed *)
(* are up to MaxChunks chunks of ChunkPool joined by one of Separators;    *)
(* each chunk of the pool carries its shape and, when its shape is         *)
(* "block", the times and the text written in it.                          *)
(***************************************************************************)
MaxChunks == 3

ChunkPool == {
  [shape |-> "block", start |-> 1000000, end |-> 2000000,
   text |-> <<"h", "i">>,
   chunk |->
      <<"1", "\n", "0", "0", ":", "0", "0", ":", "0", "1", ",", "0", "0",
        "0", " ", "-", "-", ">", " ", "0", "0", ":", "0", "0", ":", "0",
        "2", ",", "0", "0", "0", "\n", "h", "i">>],
  [shape |-> "block", start |-> 3000000, end |-> 4500000,
   text |-> <<"h", "i", " ", "y", "o">>,
   chunk |->
      <<"2", "\n", "0", "0", ":", "0", "0", ":", "0", "3", ",", "0", "0",
        "0", " ", "-", "-", ">", " ", "0", "0", ":", "0", "0", ":", "0",
        "4", ",", "5", "0", "0", "\n", "h", "i", "\n", "y", "o">>],
  [shape |-> "block", start |-> 66000000, end |-> 67000000,
   text |-> <<"y", "o">>,
   chunk |->
      <<"3", "\r", "\n", "0", "0", ":", "0", "1", ":", "0", "6", ",",
        "0", "0", "0", " ", "-", "-", ">", " ", "0", "0", ":", "0", "1",
        ":", "0", "7", ",", "0", "0", "0", "\r", "\n", "y", "o">>],
  [shape |-> "block", start |-> 5000000, end |-> 3000000,
   text |-> <<"h", "i">>,
   chunk |->
      <<"4", "\n", "0", "0", ":", "0", "0", ":", "0", "5", ",", "0", "0",
        "0", " ", "-", "-", ">", " ", "0", "0", ":", "0", "0", ":", "0",
        "3", ",", "0", "0", "0", "\n", "h", "i">>],
  [shape |-> "noText", start |-> 0, end |-> 0,
   text |-> <<>>,
   chunk |->
      <<"5", "\n", "0", "0", ":", "0", "0", ":", "0", "1", ",", "0", "0",
        "0", " ", "-", "-", ">", " ", "0", "0", ":", "0", "0", ":", "0",
        "2", ",", "0", "0", "0">>],
  [shape |-> "noArrow", start |-> 0, end |-> 0,
   text |-> <<>>,
   chunk |->
      <<"6", "\n", "0", "0", ":", "0", "0", ":", "0", "1", ",", "0", "0",
        "0", " ", "-", ">", " ", "0", "0", ":", "0", "0", ":", "0", "2",
        ",", "0", "0", "0", "\n", "h", "i">>],
  [shape |-> "noEnd", start |-> 0, end |-> 0,
   text |-> <<>>,
   chunk |->
      <<"7", "\n", "0", "0", ":", "0", "0", ":", "0", "1", ",", "0", "0",
        "0", " ", "-", "-", ">", " ", "\n", "h", "i">>],
  [shape |-> "badStamp", start |-> 0, end |-> 0,
   text |-> <<>>,
   chunk |->
      <<"8", "\n", "0", "0", ":", "0", "0", ":", "0", "1", ".", "0", "0",
        "0", " ", "-", "-", ">", " ", "0", "0", ":", "0", "0", ":", "0",
        "2", ",", "0", "0", "0", "\n", "h", "i">>],
  [shape |-> "noIndex", start |-> 0, end |-> 0,
   text |-> <<>>,
   chunk |->
      <<"0", "0", ":", "0", "0", ":", "0", "1", ",", "0", "0", "0", " ",
        "-", "-", ">", " ", "0", "0", ":", "0", "0", ":", "0", "2", ",",
        "0", "0", "0", "\n", "h", "i">>],
  [shape |-> "oneLine", start |-> 0, end |-> 0,
   text |-> <<>>,
   chunk |->
      <<"h", "i">>]}

Separators == {<<"\n", "\n">>, <<"\n", "\n", "\n">>, <<"\r", "\n", "\r", "\n">>}

RECURSIVE Join(_, _)
Join(parts, sep) ==
  IF parts = <<>> THEN <<>>
  ELSE IF Len(parts) = 1 THEN parts[1].chunk
  ELSE parts[1].chunk \o sep \o Join(Tail(parts), sep)

\* the length of the match of /\r?\n\r?\n/ at position i of text, 0 if none
BlankLineAt(text, i) ==
  LET a == IF text[i] = "\r" THEN 1 ELSE 0
      j == i + a
  IN  IF j > Len(text) \/ text[j] # "\n" \/ j + 1 > Len(text) THEN 0
      ELSE LET b == IF text[j + 1] = "\r" THEN 1 ELSE 0
               k == j + 1 + b
           IN  IF k > Len(text) \/ text[k] # "\n" THEN 0 ELSE a + b + 2

\* contents.split(/\r?\n\r?\n/)
RECURSIVE SplitChunks(_)
SplitChunks(text) ==
  LET at == {i \in 1..Len(text) : BlankLineAt(text, i) > 0}
  IN  IF at = {} THEN <<text>>
      ELSE LET i == CHOOSE x \in at : \A y \in at : x <= y
           IN  <<SubSeq(text, 1, i - 1)>>
                 \o SplitChunks(SubSeq(text, i + BlankLineAt(text, i), Len(text)))

\* the length of the match of /\r?\n/ at position i of text, 0 if none
LineBreakAt(text, i) ==
  IF text[i] = "\n" THEN 1
  ELSE IF text[i] = "\r" /\ i < Len(text) /\ text[i + 1] = "\n" THEN 2
  ELSE 0

\* chunk.split(/\r?\n/)
RECURSIVE SplitLines(_)
SplitLines(text) ==
  LET at == {i \in 1..Len(text) : LineBreakAt(text, i) > 0}
  IN  IF at = {} THEN <<text>>
      ELSE LET i == CHOOSE x \in at : \A y \in at : x <= y
           IN  <<SubSeq(text, 1, i - 1)>>
                 \o SplitLines(SubSeq(text, i + LineBreakAt(text, i), Len(text)))

IsWhiteSpace(c) == c \in {" ", "\n", "\r", "\t"}

\* String.prototype.trim
RECURSIVE trim(_)
trim(text) ==
  IF text = <<>> THEN text
  ELSE IF IsWhiteSpace(text[1]) THEN trim(Tail(text))
  ELSE IF IsWhiteSpace(text[Len(text)]) THEN trim(SubSeq(text, 1, Len(text) - 1))
  ELSE text

Arrow == <<" ", "-", "-", ">", " ">>

\* timing.split(' --> ')
RECURSIVE SplitArrow(_)
SplitArrow(text) ==
  LET at == {i \in 1..Len(text) : startsWith(SubSeq(text, i, Len(text)), Arrow)}
  IN  IF at = {} THEN <<text>>
      ELSE LET i == CHOOSE x \in at : \A y \in at : x <= y
           IN  <<SubSeq(text, 1, i - 1)>>
                 \o SplitArrow(SubSeq(text, i + Len(Arrow), Len(text)))

\* lines.slice(2).join(' ')
RECURSIVE JoinLines(_)
JoinLines(lines) ==
  IF lines = <<>> THEN <<>>
  ELSE IF Len(lines) = 1 THEN lines[1]
  ELSE lines[1] \o <<" ">> \o JoinLines(Tail(lines))

\* how many digits text has from position i on
RECURSIVE DigitRun(_, _)
DigitRun(text, i) ==
  IF i <= Len(text) /\ IsDigitChar(text[i]) THEN 1 + DigitRun(text, i + 1) ELSE 0

\* the groups of /(\d+):(\d+):(\d+),(\d+)/ matched at position i of input:
\* the digits of one group after the other, <<>> when there is no match there
GroupsAt(input, i) ==
  LET h == DigitRun(input, i)
      m == DigitRun(input, i + h + 1)
      sec == DigitRun(input, i + h + m + 2)
      ms == DigitRun(input, i + h + m + sec + 3)
      last == i + h + m + sec + ms + 2
  IN  IF /\ h > 0 /\ m > 0 /\ sec > 0 /\ ms > 0
         /\ last <= Len(input)
         /\ input[i + h] = ":"
         /\ input[i + h + m + 1] = ":"
         /\ input[i + h + m + sec + 2] = ","
      THEN <<SubSeq(input, i, i + h - 1),
             SubSeq(input, i + h + 1, i + h + m),
             SubSeq(input, i + h + m + 2, i + h + m + sec + 1),
             SubSeq(input, i + h + m + sec + 3, last)>>
      ELSE <<>>

\* input.match(...): the groups of the leftmost match, <<>> for null
matchTimestamp(input) ==
  LET at == {i \in 1..Len(input) : GroupsAt(input, i) # <<>>}
  IN  IF at = {} THEN <<>>
      ELSE GroupsAt(input, CHOOSE x \in at : \A y \in at : x <= y)

SecPerHour == 3600
SecPerMin == 60

\* hours * 3600 + minutes * 60 + seconds + millis / 1000, in microseconds
TimestampUs(groups) ==
  (ParseNat(groups[1]) * SecPerHour + ParseNat(groups[2]) * SecPerMin
     + ParseNat(groups[3])) * MsPerSec * UsPerMs
    + ParseNat(groups[4]) * UsPerMs

\* parseSrt without its try and catch: a timestamp that does not parse ends
\* the parse of the file
AfterInvalidTimestamp_Uncaught == "failed"

\* parseSrt: catch { } around the two parseTimestamp calls
AfterInvalidTimestamp == "chunks"

Files ==
  UNION {[1..n -> ChunkPool] : n \in 0..MaxChunks}

InitSrt ==
  /\ IdleServices
  /\ IdleRun
  /\ scan = IdleScan
  /\ disk = NoDisk
  /\ \E parts \in Files, sep \in Separators :
       srt = [pc |-> "read", parts |-> parts, contents |-> Join(parts, sep),
              chunks |-> <<>>, chunkIdx |-> 0, blocks |-> <<>>]

\* parseSrt: readFile and the split into chunks
SplitContents ==
  /\ srt.pc = "read"
  /\ srt' = [srt EXCEPT !.pc = "chunks", !.chunks = SplitChunks(srt.contents),
                        !.chunkIdx = 1]
  /\ UNCHANGED <<runVars, scan, disk, svcVars>>

\* parseSrt: the callback of chunks.forEach on one chunk
ParseChunk ==
  /\ srt.pc = "chunks"
  /\ srt.chunkIdx <= Len(srt.chunks)
  /\ LET lines == SplitLines(trim(srt.chunks[srt.chunkIdx]))
         parts == IF Len(lines) < 2 THEN <<>> ELSE SplitArrow(lines[2])
         text == IF Len(lines) < 3 THEN <<>>
                 ELSE trim(JoinLines(SubSeq(lines, 3, Len(lines))))
         skipped == \/ Len(lines) < 2
                    \/ Len(parts) < 2
                    \/ parts[1] = <<>>
                    \/ parts[2] = <<>>
                    \/ text = <<>>
         startGroups == matchTimestamp(parts[1])
         endGroups == matchTimestamp(parts[2])
         start == parseTimestamp(TimestampUs(startGroups), Binary64Bits)
         end == parseTimestamp(TimestampUs(endGroups), Binary64Bits)
     IN  IF skipped
         THEN srt' = [srt EXCEPT !.chunkIdx = @ + 1]
         ELSE IF startGroups = <<>> \/ endGroups = <<>>
         THEN srt' = [srt EXCEPT !.chunkIdx = @ + 1, !.pc = AfterInvalidTimestamp]
         ELSE srt' = [srt EXCEPT
                        !.chunkIdx = @ + 1,
                        !.blocks = Append(@, [start |-> start, end |-> end,
                                              text |-> text])]
  /\ UNCHANGED <<runVars, scan, disk, svcVars>>

\* parseSrt: return blocks
ReturnBlocks ==
  /\ srt.pc = "chunks"
  /\ srt.chunkIdx > Len(srt.chunks)
  /\ srt' = [srt EXCEPT !.pc = "returned"]
  /\ UNCHANGED <<runVars, scan, disk, svcVars>>

NextSrt == SplitContents \/ ParseChunk \/ ReturnBlocks

SpecSrt == InitSrt /\ [][NextSrt]_vars

\* C21: every block parseSrt returns ends after it starts
C21_BlockEndsAfterStart ==
  \A i \in 1..Len(srt.blocks) : srt.blocks[i].end > srt.blocks[i].start

\* the blocks written in the file, in the order of the file
RECURSIVE WrittenBlocks(_)
WrittenBlocks(parts) ==
  IF parts = <<>> THEN <<>>
  ELSE (IF parts[1].shape = "block"
        THEN <<[start |-> parts[1].start, end |-> parts[1].end,
                text |-> parts[1].text]>>
        ELSE <<>>) \o WrittenBlocks(Tail(parts))

\* C22: the parse of a file never fails because of a chunk: it always
\* comes to return, and it returns the blocks written in the file, in the
\* order of the file, and nothing for the chunks without a timing line,
\* without a text or with a timestamp that does not parse
C22_MalformedChunksDropped ==
  /\ srt.pc # "failed"
  /\ srt.pc = "returned" => srt.blocks = WrittenBlocks(srt.parts)

\* a file with a block, a chunk whose timestamp does not parse and another
\* block: both blocks are returned
C22_Witness ==
  /\ srt.pc = "returned"
  /\ Len(srt.parts) = 3
  /\ srt.parts[1].shape = "block"
  /\ srt.parts[2].shape = "badStamp"
  /\ srt.parts[3].shape = "block"
  /\ srt.parts[1] # srt.parts[3]
  /\ Len(srt.blocks) = 2

(***************************************************************************)
(* runFfmpeg: the arguments of the ffmpeg process that cuts one clip, for  *)
(* each of the three modes.  An argument is a string of characters.  A run *)
(* is followed from its hits on: processHit computes the window of a hit   *)
(* and calls runFfmpeg with the mode the extractor was built with.         *)
(***************************************************************************)
ArgHideBanner == <<"-", "h", "i", "d", "e", "_", "b", "a", "n", "n", "e", "r">>
ArgNoStdin == <<"-", "n", "o", "s", "t", "d", "i", "n">>
ArgLogLevel == <<"-", "l", "o", "g", "l", "e", "v", "e", "l">>
ArgInfo == <<"i", "n", "f", "o">>
ArgError == <<"e", "r", "r", "o", "r">>
ArgYes == <<"-", "y">>
ArgStats == <<"-", "s", "t", "a", "t", "s">>
ArgT == <<"-", "t">>
ArgMovFlags == <<"-", "m", "o", "v", "f", "l", "a", "g", "s">>
ArgFastStart == <<"+", "f", "a", "s", "t", "s", "t", "a", "r", "t">>
ArgHwAccel == <<"-", "h", "w", "a", "c", "c", "e", "l">>
VideoToolbox == <<"v", "i", "d", "e", "o", "t", "o", "o", "l", "b", "o", "x">>
ArgSs == <<"-", "s", "s">>
ArgI == <<"-", "i">>
ArgC == <<"-", "c">>
ArgCopy == <<"c", "o", "p", "y">>
ArgCa == <<"-", "c", ":", "a">>
ArgAac == <<"a", "a", "c">>
ArgBa == <<"-", "b", ":", "a">>
Arg192k == <<"1", "9", "2", "k">>
ArgCv == <<"-", "c", ":", "v">>
ArgLibx264 == <<"l", "i", "b", "x", "2", "6", "4">>
ArgPreset == <<"-", "p", "r", "e", "s", "e", "t">>
ArgVeryFast == <<"v", "e", "r", "y", "f", "a", "s", "t">>
ArgCrf == <<"-", "c", "r", "f">>
Arg18 == <<"1", "8">>
ArgH264VideoToolbox == <<"h", "2", "6", "4", "_", "v", "i", "d", "e", "o", "t", "o", "o", "l", "b", "o", "x">>
Mp4 == <<"m", "p", "4">>
CutVideoPath == <<"A", " ", "b", "/", "m", ".", "m", "k", "v">>

ClipModes == {"fast-copy", "accurate-transcode", "clean-transcode"}

\* hwAccel: 'videotoolbox', or <<>> for undefined
HardwareAccels == {VideoToolbox, <<>>}

\* pad2: String(value).padStart(2, '0')
pad2(n) == padStart(Digits(n), 2, "0")

MinPerHour == 60

\* formatFfmpegTime of a number of seconds given in microseconds
formatFfmpegTime(us) ==
  LET totalMs == Max(RoundToMs(us), 0)
      ms == totalMs % MsPerSec
      totalSeconds == totalMs \div MsPerSec
      sec == totalSeconds % SecPerMin
      totalMinutes == totalSeconds \div SecPerMin
      m == totalMinutes % MinPerHour
      h == totalMinutes \div MinPerHour
  IN  pad2(h) \o <<":">> \o pad2(m) \o <<":">> \o pad2(sec) \o <<".">>
        \o padStart(Digits(ms), 3, "0")

buildVideoCodecArgs(hwAccel) ==
  IF hwAccel = VideoToolbox THEN <<ArgCv, ArgH264VideoToolbox>>
  ELSE <<ArgCv, ArgLibx264, ArgPreset, ArgVeryFast, ArgCrf, Arg18>>

baseArgs(verbose, ffmpegStats) ==
  <<ArgHideBanner, ArgNoStdin, ArgLogLevel, IF verbose THEN ArgInfo ELSE ArgError,
    ArgYes>> \o (IF ffmpegStats THEN <<ArgStats>> ELSE <<>>)

durationArg(duration) == <<ArgT, formatFfmpegTime(duration)>>
containerArgs(container) ==
  IF container = Mp4 THEN <<ArgMovFlags, ArgFastStart>> ELSE <<>>
hwDecodeArgs(hwAccel) == IF hwAccel # <<>> THEN <<ArgHwAccel, hwAccel>> ELSE <<>>

\* runFfmpeg seeking before the input in every mode
ffmpegArgs_SeekFirst(o, video, startTime, duration, outputPath) ==
  baseArgs(o.verbose, o.ffmpegStats)
    \o <<ArgSs, formatFfmpegTime(startTime), ArgI, video>> \o durationArg(duration)
    \o (IF o.mode = "fast-copy" THEN <<ArgC, ArgCopy>>
        ELSE <<ArgCv, ArgLibx264, ArgPreset, ArgVeryFast, ArgCa, ArgAac, ArgBa,
               Arg192k>>)
    \o containerArgs(o.container) \o <<outputPath>>

\* runFfmpeg: ffmpegArgs
ffmpegArgs(o, video, startTime, duration, outputPath) ==
  IF o.mode = "fast-copy"
  THEN baseArgs(o.verbose, o.ffmpegStats) \o hwDecodeArgs(o.hwAccel)
         \o <<ArgSs, formatFfmpegTime(startTime), ArgI, video>>
         \o durationArg(duration) \o <<ArgC, ArgCopy>>
         \o containerArgs(o.container) \o <<outputPath>>
  ELSE IF o.mode = "accurate-transcode"
  THEN baseArgs(o.verbose, o.ffmpegStats) \o hwDecodeArgs(o.hwAccel)
         \o <<ArgI, video, ArgSs, formatFfmpegTime(startTime)>>
         \o durationArg(duration) \o buildVideoCodecArgs(o.hwAccel)
         \o <<ArgCa, ArgAac, ArgBa, Arg192k>>
         \o containerArgs(o.container) \o <<outputPath>>
  ELSE baseArgs(o.verbose, o.ffmpegStats)
         \o <<ArgSs, formatFfmpegTime(startTime), ArgI, video>>
         \o durationArg(duration)
         \o <<ArgCv, ArgLibx264, ArgPreset, ArgVeryFast, ArgCa, ArgAac, ArgBa,
               Arg192k>>
         \o containerArgs(o.container) \o <<outputPath>>

CutMovieDir == <<"A", " ", "b">>
CutBuffers == {0, ScenarioBufferUs}
CutHitLists == UNION {[1..n -> HitPool] : n \in 1..MaxHits}

InitCut ==
  /\ IdleServices
  /\ \E mode \in ClipModes, hwAccel \in HardwareAccels, container \in Containers,
        ffmpegStats \in BOOLEAN, verbose \in BOOLEAN, bufferUs \in CutBuffers :
       opts = [dryRun |-> FALSE, limit |-> 0, container |-> container,
               bufferUs |-> bufferUs, mode |-> mode, hwAccel |-> hwAccel,
               ffmpegStats |-> ffmpegStats, verbose |-> verbose]
  /\ hits \in CutHitLists
  /\ pc = "window"
  /\ hitIdx = 1
  /\ error = ""
  /\ dirs = TRUE
  /\ pending = IdlePending
  /\ probe = NoProbe
  /\ subtitleFiles = <<SrtFile(CutMovieDir)>>
  /\ fileIdx = 1
  /\ videoPath = CutVideoPath
  /\ processed = 0
  /\ cur = NoCur
  /\ movieClipCounts = [d \in AllDirs |-> 0]
  /\ metadataEntries = <<>>
  /\ manifest = NoManifest
  /\ spawned = <<>>
  /\ warned = {}
  /\ child = NoChild
  /\ scan = IdleScan
  /\ disk = NoDisk
  /\ srt = NoSrt

\* processHit: the output name of the clip and the runFfmpeg call
CutClip ==
  /\ pc = "windowed"
  /\ LET nextIndex == NextIndex(movieClipCounts, relativeMovieDir)
         outputName == buildOutputName(relativeMovieDir, nextIndex, cur.startTime,
                                       opts.container)
         args == ffmpegArgs(opts, videoPath, cur.startTime,
                            cur.endTime - cur.startTime, VidsDir \o outputName)
     IN  /\ movieClipCounts' = [movieClipCounts EXCEPT ![relativeMovieDir] = nextIndex]
         /\ cur' = [cur EXCEPT !.nextIndex = nextIndex, !.outputName = outputName]
         /\ spawned' = Append(spawned, [kind |-> "cut", outcome |-> ExitOk,
                                        args |-> args])
  /\ pc' = "clipped"
  /\ UNCHANGED <<opts, error, dirs, pending, probe, subtitleFiles, fileIdx, hits,
                 hitIdx, videoPath, processed, metadataEntries, manifest, warned,
                 child, scan, disk, srt, svcVars>>

\* run(): on to the next hit of the file
NextHit ==
  /\ pc \in {"clipped", "dropped"}
  /\ hitIdx < Len(hits)
  /\ hitIdx' = hitIdx + 1
  /\ processed' = processed + 1
  /\ pc' = "window"
  /\ UNCHANGED <<opts, error, dirs, pending, probe, subtitleFiles, fileIdx, hits,
                 videoPath, cur, movieClipCounts, metadataEntries, manifest,
                 spawned, warned, child, scan, disk, srt, svcVars>>

NextCut == ComputeWindow \/ CutClip \/ NextHit

SpecCut == InitCut /\ [][NextCut]_vars

\* the positions of an argument in an argument list
Positions(args, arg) == {i \in 1..Len(args) : args[i] = arg}

\* the seek is one -ss followed by a time, the input one -i followed by the
\* video, and the seek is before the input
SeeksBeforeInput(args) ==
  \E i, j \in 1..Len(args) :
    /\ Positions(args, ArgSs) = {i}
    /\ Positions(args, ArgI) = {j}
    /\ i + 1 < j

SeeksAfterInput(args) ==
  \E i, j \in 1..Len(args) :
    /\ Positions(args, ArgSs) = {i}
    /\ Positions(args, ArgI) = {j}
    /\ j + 1 < i

\* -c copy and no codec of its own for video or audio
StreamCopies(args) ==
  /\ \E i \in Positions(args, ArgC) : i < Len(args) /\ args[i + 1] = ArgCopy
  /\ Positions(args, ArgCv) = {}
  /\ Positions(args, ArgCa) = {}

\* an encoder for video and one for audio, and no -c copy
ReEncodes(args) ==
  /\ \E i \in Positions(args, ArgCv) :
       i < Len(args) /\ args[i + 1] \in {ArgLibx264, ArgH264VideoToolbox}
  /\ \E i \in Positions(args, ArgCa) : i < Len(args) /\ args[i + 1] = ArgAac
  /\ Positions(args, ArgC) = {}
  /\ Positions(args, ArgCopy) = {}

\* C23: the run has one of the three modes, and every ffmpeg process that
\* cuts a clip has the arguments of that mode: fast-copy seeks before the
\* input and copies the streams, accurate-transcode seeks after the input
\* and encodes, clean-transcode seeks before the input and encodes
C23_ArgsOfTheMode ==
  /\ opts.mode \in ClipModes
  /\ \A i \in 1..Len(spawned) :
       LET args == spawned[i].args
       IN  /\ opts.mode = "fast-copy" => SeeksBeforeInput(args) /\ StreamCopies(args)
           /\ opts.mode = "accurate-transcode" =>
                SeeksAfterInput(args) /\ ReEncodes(args)
           /\ opts.mode = "clean-transcode" =>
                SeeksBeforeInput(args) /\ ReEncodes(args)
           /\ ~(SeeksBeforeInput(args) /\ SeeksAfterInput(args))
           /\ ~(StreamCopies(args) /\ ReEncodes(args))

\* two clips cut in accurate-transcode mode with hardware acceleration
C23_Witness ==
  /\ opts.mode = "accurate-transcode"
  /\ opts.hwAccel = VideoToolbox
  /\ Len(spawned) = 2
  /\ SeeksAfterInput(spawned[2].args)
  /\ ReEncodes(spawned[2].args)

(***************************************************************************)
(* findHits and collectContextSnippets: the blocks of a subtitle file are  *)
(* visited in order, and every hit of a block carries the snippets of the  *)
(* blocks around it.  Block k of the files followed starts BlockGap after  *)
(* block k - 1; whether hitsForBlock finds the query in a block is drawn   *)
(* block by block.  Positions count from 1 here and from 0 in the code.    *)
(***************************************************************************)
MaxBlocks == 13
ContextRadius == 5
BlockGap == 150500000
BlockLength == 2000000

BlockTexts == {<<"h", "i">>, <<"y", "o">>}

BlockOfFile(k, text) ==
  [start |-> (k - 1) * BlockGap, end |-> (k - 1) * BlockGap + BlockLength,
   text |-> text]

BlockLists ==
  UNION {{[k \in 1..n |-> BlockOfFile(k, text)] : text \in BlockTexts} :
           n \in 1..MaxBlocks}

\* formatHumanTime of a number of seconds given in microseconds
formatHumanTime(us) ==
  LET totalSeconds == us \div (MsPerSec * UsPerMs)
      sec == totalSeconds % SecPerMin
      m == (totalSeconds \div SecPerMin) % MinPerHour
      h == totalSeconds \div SecPerHour
  IN  pad2(h) \o <<":">> \o pad2(m) \o <<":">> \o pad2(sec)

\* collectContextSnippets: `[${formatHumanTime(snippet.start)}] ${snippet.text}`
Snippet(block) == <<"[">> \o formatHumanTime(block.start) \o <<"]", " ">> \o block.text

\* collectContextSnippets leaving out the last block of the range
collectContextSnippets_Exclusive(blocks, centerIndex, radius) ==
  LET startIndex == Max(1, centerIndex - radius)
      endIndex == Min(Len(blocks), centerIndex + radius)
  IN  [k \in 1..(endIndex - startIndex) |-> Snippet(blocks[startIndex + k - 1])]

collectContextSnippets(blocks, centerIndex, radius) ==
  LET startIndex == Max(1, centerIndex - radius)
      endIndex == Min(Len(blocks), centerIndex + radius)
  IN  [k \in 1..(endIndex - startIndex + 1) |-> Snippet(blocks[startIndex + k - 1])]

InitContext ==
  /\ IdleServices
  /\ IdleRun
  /\ scan = IdleScan
  /\ disk = NoDisk
  /\ \E blocks \in BlockLists :
       srt = [pc |-> "blocks", blocks |-> blocks, blockIdx |-> 1, centers |-> <<>>]

\* findHits: the callback of blocks.forEach on one block
VisitBlock ==
  /\ srt.pc = "blocks"
  /\ srt.blockIdx <= Len(srt.blocks)
  /\ \E matched \in BOOLEAN :
       LET block == srt.blocks[srt.blockIdx]
           contextSnippets ==
             collectContextSnippets(srt.blocks, srt.blockIdx, ContextRadius)
       IN  IF ~matched
           THEN /\ hits' = hits
                /\ srt' = [srt EXCEPT !.blockIdx = @ + 1]
           ELSE /\ hits' = Append(hits, [start |-> block.start, end |-> block.end,
                                          contextSnippets |-> contextSnippets])
                /\ srt' = [srt EXCEPT !.blockIdx = @ + 1,
                                      !.centers = Append(@, srt.blockIdx)]
  /\ UNCHANGED <<opts, pc, error, dirs, pending, probe, subtitleFiles, fileIdx,
                 hitIdx, videoPath, processed, cur, movieClipCounts,
                 metadataEntries, manifest, spawned, warned, child, scan, disk, svcVars>>

\* findHits: return matches
ReturnMatches ==
  /\ srt.pc = "blocks"
  /\ srt.blockIdx > Len(srt.blocks)
  /\ srt' = [srt EXCEPT !.pc = "matched"]
  /\ UNCHANGED <<runVars, scan, disk, svcVars>>

NextContext == VisitBlock \/ ReturnMatches

SpecContext == InitContext /\ [][NextContext]_vars

\* the time tag written for block k of a file: BlockGap is 2 minutes and
\* 30.5 seconds
TagOfBlock(k) ==
  LET sec == (k - 1) * 150 + (k - 1) \div 2
  IN  <<"[">> \o pad2(sec \div 3600) \o <<":">> \o pad2((sec % 3600) \div 60)
        \o <<":">> \o pad2(sec % 60) \o <<"]", " ">>

\* C24: the context of a match in block i of N blocks is the blocks from
\* max(first, i - 5) to min(last, i + 5), in that order, each as its time
\* tag and its text; block i is among them and there are at most 11
C24_ContextIsTheWindowOfBlocks ==
  \A h \in 1..Len(hits) :
    LET i == srt.centers[h]
        N == Len(srt.blocks)
        lo == IF i - 5 < 1 THEN 1 ELSE i - 5
        hi == IF i + 5 > N THEN N ELSE i + 5
        snippets == hits[h].contextSnippets
    IN  /\ Len(snippets) = hi - lo + 1
        /\ \A k \in 1..Len(snippets) :
             snippets[k] = TagOfBlock(lo + k - 1) \o srt.blocks[lo + k - 1].text
        /\ snippets[i - lo + 1] = TagOfBlock(i) \o srt.blocks[i].text
        /\ Len(snippets) <= 11

\* a file of more than 11 blocks with a match in its first block, one in
\* its last and one with five blocks on either side
C24_Witness ==
  /\ srt.pc = "matched"
  /\ Len(srt.blocks) > 11
  /\ \E a, b, c \in 1..Len(hits) :
       /\ srt.centers[a] = 1 /\ Len(hits[a].contextSnippets) = 6
       /\ srt.centers[b] = Len(srt.blocks) /\ Len(hits[b].contextSnippets) = 6
       /\ Len(hits[c].contextSnippets) = 11

(***************************************************************************)
(* Further properties of a run (specification Spec).                       *)
(***************************************************************************)
\* the window of the hit run() is at
WindowLength == WindowEnd(hits[hitIdx]) - WindowStart(hits[hitIdx])

\* processHit is about to be called with a hit whose window has no length
AtDegenerateHit ==
  /\ pc = "hits"
  /\ hitIdx <= Len(hits)
  /\ ~LimitReached
  /\ WindowLength <= 0

\* C25: processHit on a hit whose window has no length advances no sequence
\* counter, launches no child process and appends no manifest entry, and
\* every entry that is appended is that of a hit whose window has a length
C25_DegenerateWindowDiscarded ==
  [][/\ AtDegenerateHit =>
          /\ hitIdx' = hitIdx + 1
          /\ pc' = "hits"
          /\ movieClipCounts' = movieClipCounts
          /\ spawned' = spawned
          /\ child' = child
          /\ cur' = cur
          /\ metadataEntries' = metadataEntries
     /\ metadataEntries' # metadataEntries => WindowLength > 0]_vars

\* after a hit that was discarded the next hit of the same file became the
\* first clip of its folder
C25_Witness ==
  /\ pc = "hits"
  /\ hitIdx = 3
  /\ WindowEnd(hits[1]) - WindowStart(hits[1]) <= 0
  /\ Len(metadataEntries) = 1
  /\ movieClipCounts[relativeMovieDir] = 1

(***************************************************************************)
(* Further properties of the scan of a block (specification SpecScan).     *)
(***************************************************************************)
\* C26: every hit hitsForBlock returns for a block lies in the block: it
\* starts at the start of the block or later, ends after it starts, and
\* ends at the end of the block or earlier
C26_HitInsideBlock ==
  scan.pc = "returned" =>
    \A i \in 1..Len(scan.matches) :
      /\ scan.block.start <= scan.matches[i].start
      /\ scan.matches[i].start < scan.matches[i].end
      /\ scan.matches[i].end <= scan.block.end

(***************************************************************************)
(* The status of a src_media row under the requests of the API:            *)
(* POST /api/src_medias/:id/process (SubtitleService.processMedia) and     *)
(* POST /api/src_medias/:id/fail (SrcMediaController.markFailed).  Every   *)
(* request is an async function; the steps of the model are its awaits: a  *)
(* query of the repository takes effect in one step and the request goes   *)
(* on in a later one, with the steps of the other requests in between.  An *)
(* update of the repository can be rejected, and then writes nothing.      *)
(***************************************************************************)
PENDING == "pending"
IN_PROGRESS == "in_progress"
READY == "ready"
FAILED == "failed"
NoRow == "no row"

\* the requests to process the media that are under way together
Callers == {"p1", "p2"}

NewProcess == [pc |-> "getMedia", began |-> FALSE, atEnd |-> NoRow]
NewFail == [pc |-> "getMedia", read |-> NoRow, overwrote |-> NoRow]

InitMedia ==
  /\ IdleRun
  /\ scan = IdleScan
  /\ disk = NoDisk
  /\ srt = NoSrt
  /\ db = NoDb
  /\ api = NoApi
  /\ \E status \in {NoRow, PENDING, READY, FAILED} :
       media = [status |-> status, process |-> [p \in Callers |-> NewProcess],
                fail |-> NewFail]

\* processMedia: getMediaById, and NotFoundException for an unknown id
ProcessGetMedia(p) ==
  /\ media.process[p].pc = "getMedia"
  /\ media' = [media EXCEPT
                 !.process[p].pc = IF media.status = NoRow THEN "thrown"
                                   ELSE "setInProgress",
                 !.process[p].atEnd = media.status]
  /\ UNCHANGED <<runVars, scan, disk, srt, db, api>>

\* processMedia: updateStatus(mediaId, IN_PROGRESS), before the try
ProcessSetInProgress(p) ==
  /\ media.process[p].pc = "setInProgress"
  /\ \E ok \in BOOLEAN :
       media' = IF ok
                THEN [media EXCEPT !.status = IN_PROGRESS,
                                   !.process[p].pc = "ensure",
                                   !.process[p].began = TRUE]
                ELSE [media EXCEPT !.process[p].pc = "throwing"]
  /\ UNCHANGED <<runVars, scan, disk, srt, db, api>>

\* processMedia: ensureSubtitleEntity, which resolves or rejects
ProcessEnsureSubtitle(p) ==
  /\ media.process[p].pc = "ensure"
  /\ \E ok \in BOOLEAN :
       media' = [media EXCEPT !.process[p].pc = IF ok THEN "setReady" ELSE "setFailed"]
  /\ UNCHANGED <<runVars, scan, disk, srt, db, api>>

\* processMedia: updateStatus(mediaId, READY), inside the try
ProcessSetReady(p) ==
  /\ media.process[p].pc = "setReady"
  /\ \E ok \in BOOLEAN :
       media' = IF ok
                THEN [media EXCEPT !.status = READY, !.process[p].pc = "returning"]
                ELSE [media EXCEPT !.process[p].pc = "setFailed"]
  /\ UNCHANGED <<runVars, scan, disk, srt, db, api>>

\* processMedia: updateStatus(mediaId, FAILED) in the catch, then throw
ProcessSetFailed(p) ==
  /\ media.process[p].pc = "setFailed"
  /\ \E ok \in BOOLEAN :
       media' = IF ok
                THEN [media EXCEPT !.status = FAILED, !.process[p].pc = "throwing"]
                ELSE [media EXCEPT !.process[p].pc = "throwing"]
  /\ UNCHANGED <<runVars, scan, disk, srt, db, api>>

\* processMedia returns or throws to its caller
ProcessSettle(p) ==
  /\ media.process[p].pc \in {"returning", "throwing"}
  /\ media' = [media EXCEPT
                 !.process[p].pc = IF @ = "returning" THEN "returned" ELSE "thrown",
                 !.process[p].atEnd = media.status]
  /\ UNCHANGED <<runVars, scan, disk, srt, db, api>>

\* markFailed: getMediaById and the two checks
FailGetMedia ==
  /\ media.fail.pc = "getMedia"
  /\ media' = [media EXCEPT
                 !.fail.read = media.status,
                 !.fail.pc = IF media.status = NoRow \/ media.status # READY
                             THEN "rejected" ELSE "update"]
  /\ UNCHANGED <<runVars, scan, disk, srt, db, api>>

\* markFailed: updateStatus(id, FAILED)
FailUpdate ==
  /\ media.fail.pc = "update"
  /\ \E ok \in BOOLEAN :
       media' = IF ok
                THEN [media EXCEPT !.status = FAILED, !.fail.pc = "returned",
                                   !.fail.overwrote = media.status]
                ELSE [media EXCEPT !.fail.pc = "rejected"]
  /\ UNCHANGED <<runVars, scan, disk, srt, db, api>>

NextMedia ==
  \/ \E p \in Callers :
       \/ ProcessGetMedia(p)
       \/ ProcessSetInProgress(p)
       \/ ProcessEnsureSubtitle(p)
       \/ ProcessSetReady(p)
       \/ ProcessSetFailed(p)
       \/ ProcessSettle(p)
  \/ FailGetMedia
  \/ FailUpdate

SpecMedia == InitMedia /\ [][NextMedia]_vars

\* C27: when processMedia returns the status of the media is READY, and
\* when it throws after it set the status to IN_PROGRESS the status is
\* FAILED
C27_NeverLeftInProgress ==
  \A p \in Callers :
    /\ media.process[p].pc = "returned" => media.process[p].atEnd = READY
    /\ (media.process[p].pc = "thrown" /\ media.process[p].began) =>
         media.process[p].atEnd = FAILED

\* C28: markFailed writes FAILED only over the status READY, and a request
\* it rejects has written nothing
C28_FailedOnlyOverReady ==
  /\ media.fail.pc = "returned" => media.fail.overwrote = READY
  /\ media.fail.pc = "rejected" => media.fail.overwrote = NoRow

(***************************************************************************)
(* The clip import script: it reads every metadata.yaml under the output   *)
(* root and inserts a row of the clips table for every clip whose          *)
(* signature is not among those of the rows already there.  The manifests  *)
(* are those writeMetadata wrote: the query of a manifest is the scalar    *)
(* yamlString wrote for it, read back by the parse function of the yaml    *)
(* package.  search_term is a varchar column of an SQLite table: a boolean *)
(* saved into it is stored as 1 or 0 and read back as the text "1" or "0". *)
(***************************************************************************)
MaxRuns == 3
MaxManifests == 2
MaxManifestClips == 2

ImportQueries == {<<"d", "i", "n", "o">>, <<"t", "r", "u", "e">>, <<"a", " ", "b">>}

KnownVideo == <<"A", " ", "b", "/", "m", ".", "m", "k", "v">>
UnknownVideo == <<"z", "/", "m", ".", "m", "k", "v">>
NoFolderVideo == <<"/", "m", ".", "m", "k", "v">>

\* the src_media rows: folder name and id
MediaRows == {[name |-> <<"A", " ", "b">>, id |-> 1]}

\* the clips of a manifest: start and end in microseconds, the video, and
\* whether the clip file is on disk
ImportClipPool ==
  {[start |-> 10350000, end |-> 11650000, video |-> KnownVideo, onDisk |-> TRUE],
   [start |-> 20000000, end |-> 21000000, video |-> KnownVideo, onDisk |-> TRUE],
   [start |-> 10350000, end |-> 11650000, video |-> KnownVideo, onDisk |-> FALSE],
   [start |-> 10350000, end |-> 11650000, video |-> UnknownVideo, onDisk |-> TRUE],
   [start |-> 10350000, end |-> 11650000, video |-> NoFolderVideo, onDisk |-> TRUE]}

Manifests ==
  [query : ImportQueries,
   clips : UNION {[1..n -> ImportClipPool] : n \in 1..MaxManifestClips}]

ManifestLists == UNION {[1..n -> Manifests] : n \in 1..MaxManifests}

\* loadMetadata: the query of the parsed manifest
ParsedQuery(metadata) == ResolveScalar(yamlString(metadata.query))

\* `${value}` of a parsed scalar
TemplateText(value) == value.text

\* the text read back from the search_term column after value was saved
StoredText(value) ==
  IF value.type = "boolean"
  THEN (IF value.text = <<"t", "r", "u", "e">> THEN <<"1">> ELSE <<"0">>)
  ELSE value.text

\* extractMediaFolder: the first segment of the video path, <<>> for null
extractMediaFolder(path) ==
  LET normalized == [i \in DOMAIN path |->
                       IF path[i] = "\\" THEN "/" ELSE path[i]]
  IN  Split(normalized, "/")[1]

\* buildSignature: `${mediaId}:${start}:${end}:${searchTerm}`
buildSignature(mediaId, start, end, searchTerm) ==
  Digits(mediaId) \o <<":">> \o Digits(start) \o <<":">> \o Digits(end)
    \o <<":">> \o searchTerm

InitImport ==
  /\ IdleRun
  /\ scan = IdleScan
  /\ disk = NoDisk
  /\ srt = NoSrt
  /\ media = NoMedia
  /\ api = NoApi
  /\ \E manifests \in ManifestLists :
       db = [pc |-> "ready", manifests |-> manifests, rows |-> <<>>, runs |-> <<>>,
             existingClipSignatures |-> {}, fileIdx |-> 0, clipIdx |-> 0,
             imported |-> 0]

\* main up to the loop: the signatures of the rows of the clips table
StartImport ==
  /\ db.pc = "ready"
  /\ Len(db.runs) < MaxRuns
  /\ db' = [db EXCEPT
              !.pc = "clips",
              !.existingClipSignatures =
                {buildSignature(db.rows[i].srcMediaId, db.rows[i].startTimestampMs,
                                db.rows[i].endTimestampMs, db.rows[i].searchTerm) :
                   i \in 1..Len(db.rows)},
              !.fileIdx = 1, !.clipIdx = 1, !.imported = 0]
  /\ UNCHANGED <<runVars, scan, disk, srt, media, api>>

\* main: the body of the loop over the clips of a manifest
ImportClip ==
  /\ db.pc = "clips"
  /\ db.fileIdx <= Len(db.manifests)
  /\ db.clipIdx <= Len(db.manifests[db.fileIdx].clips)
  /\ LET metadata == db.manifests[db.fileIdx]
         clip == metadata.clips[db.clipIdx]
         query == ParsedQuery(metadata)
         startTimestampMs == RoundToMs(clip.start)
         endTimestampMs == RoundToMs(clip.end)
         folderName == extractMediaFolder(clip.video)
         known == {m \in MediaRows : m.name = folderName}
         mediaRow == CHOOSE m \in known : TRUE
         signature == buildSignature(mediaRow.id, startTimestampMs, endTimestampMs,
                                     TemplateText(query))
         skipped == \/ folderName = <<>>
                    \/ known = {}
                    \/ signature \in db.existingClipSignatures
                    \/ ~clip.onDisk
     IN  IF skipped
         THEN db' = [db EXCEPT !.clipIdx = @ + 1]
         ELSE db' = [db EXCEPT
                       !.clipIdx = @ + 1,
                       !.rows = Append(@, [srcMediaId |-> mediaRow.id,
                                           startTimestampMs |-> startTimestampMs,
                                           endTimestampMs |-> endTimestampMs,
                                           searchTerm |-> StoredText(query)]),
                       !.existingClipSignatures = @ \cup {signature},
                       !.imported = @ + 1]
  /\ UNCHANGED <<runVars, scan, disk, srt, media, api>>

\* main: on to the next metadata.yaml
NextManifest ==
  /\ db.pc = "clips"
  /\ db.fileIdx <= Len(db.manifests)
  /\ db.clipIdx > Len(db.manifests[db.fileIdx].clips)
  /\ db' = [db EXCEPT !.fileIdx = @ + 1, !.clipIdx = 1]
  /\ UNCHANGED <<runVars, scan, disk, srt, media, api>>

\* main: the loops are over, the count is logged and the script ends
FinishImport ==
  /\ db.pc = "clips"
  /\ db.fileIdx > Len(db.manifests)
  /\ db' = [db EXCEPT !.pc = "ready", !.runs = Append(@, db.imported)]
  /\ UNCHANGED <<runVars, scan, disk, srt, media, api>>

NextImport == StartImport \/ ImportClip \/ NextManifest \/ FinishImport

SpecImport == InitImport /\ [][NextImport]_vars

\* C29: every run of the import script after the first imports no clip,
\* and no two rows of the clips table have the same media id, start, end
\* and search term
C29_ImportIsIdempotent ==
  /\ \A r \in 2..Len(db.runs) : db.runs[r] = 0
  /\ \A i, j \in 1..Len(db.rows) : db.rows[i] = db.rows[j] => i = j

(***************************************************************************)
(* An API extraction: ExtractionService.extract runs ClipExportService.run *)
(* for every target of dto.srcMedias and adds the metadata of each run to  *)
(* the runs of MetadataIndexService.  A step of the model is the           *)
(* continuation of a request after one of its awaits; an awaited promise   *)
(* either fulfils or rejects.  Two requests may be in flight: they share   *)
(* the index.  The metadata of a run is identified by the request and the  *)
(* position of the target that produced it (its run_directory).            *)
(***************************************************************************)
MaxTargets == 2

Requests == {"r1", "r2"}

\* the ids of the src_media rows, and an id without a row
KnownMediaIds == {1, 2}
UnknownMediaId == 9
TargetLists ==
  UNION {[1..n -> KnownMediaIds \cup {UnknownMediaId}] : n \in 0..MaxTargets}

\* the runs loadRunsFromDisk found when the module was initialised
LoadedRun == [run_directory |-> <<"disk", 0>>, mediaId |-> 1]
LoadedRuns == {<<>>, <<LoadedRun>>}

NewRequest(targets) ==
  [pc |-> "arrived", srcMedias |-> targets, target |-> 0, runs |-> <<>>,
   started |-> <<>>, completed |-> <<>>]

RunMetadata(r, k) ==
  [run_directory |-> <<r, k>>, mediaId |-> api.request[r].srcMedias[k]]

\* addRun with the metadata dropped
addRun_Dropped(runs, metadata) == runs

\* MetadataIndexService.addRun
addRun(runs, metadata) == Append(runs, metadata)

InitApi ==
  /\ IdleRun
  /\ scan = IdleScan
  /\ disk = NoDisk
  /\ srt = NoSrt
  /\ media = NoMedia
  /\ db = NoDb
  /\ \E loaded \in LoadedRuns, targets \in [Requests -> TargetLists] :
       api = [pc |-> "serving", runs |-> loaded,
              request |-> [r \in Requests |-> NewRequest(targets[r])]]

\* the head of the loop of extract: the next target, if there is one, and
\* the call of ClipExportService.run up to its first await
StartTarget(req, k) ==
  IF k > Len(req.srcMedias)
  THEN [req EXCEPT !.pc = "returned"]
  ELSE [req EXCEPT !.pc = "getMediaById", !.target = k,
                   !.started = Append(@, k)]

\* extract is called with the dto of the request
Extract(r) ==
  /\ api.pc = "serving"
  /\ api.request[r].pc = "arrived"
  /\ api' = [api EXCEPT !.request[r] = StartTarget(@, 1)]
  /\ UNCHANGED <<runVars, scan, disk, srt, media, db>>

\* run after await getMediaById: an unknown id is a NotFoundException
RunGetMediaById(r) ==
  /\ api.pc = "serving"
  /\ api.request[r].pc = "getMediaById"
  /\ \E fulfilled \in BOOLEAN :
       LET req == api.request[r]
           known == req.srcMedias[req.target] \in KnownMediaIds
       IN  api' = [api EXCEPT !.request[r].pc =
                     IF fulfilled /\ known THEN "getSubtitleFileFromEntity"
                     ELSE "rejected"]
  /\ UNCHANGED <<runVars, scan, disk, srt, media, db>>

\* run after await getSubtitleFileFromEntity
RunGetSubtitleFile(r) ==
  /\ api.pc = "serving"
  /\ api.request[r].pc = "getSubtitleFileFromEntity"
  /\ \E fulfilled \in BOOLEAN :
       api' = [api EXCEPT !.request[r].pc =
                 IF fulfilled THEN "getMediaUrl" ELSE "rejected"]
  /\ UNCHANGED <<runVars, scan, disk, srt, media, db>>

\* run after await getMediaUrl: extractClips is called
RunGetMediaUrl(r) ==
  /\ api.pc = "serving"
  /\ api.request[r].pc = "getMediaUrl"
  /\ \E fulfilled \in BOOLEAN :
       api' = [api EXCEPT !.request[r].pc =
                 IF fulfilled THEN "extractClips" ELSE "rejected"]
  /\ UNCHANGED <<runVars, scan, disk, srt, media, db>>

\* run after await extractClips: recordRun is called
RunExtractClips(r) ==
  /\ api.pc = "serving"
  /\ api.request[r].pc = "extractClips"
  /\ \E fulfilled \in BOOLEAN :
       api' = [api EXCEPT !.request[r].pc =
                 IF fulfilled THEN "recordRun" ELSE "rejected"]
  /\ UNCHANGED <<runVars, scan, disk, srt, media, db>>

\* run after await recordRun: run returns the metadata, extract adds it to
\* the index and to its runs and goes on to the next target
RunRecordRun(r) ==
  /\ api.pc = "serving"
  /\ api.request[r].pc = "recordRun"
  /\ \E fulfilled \in BOOLEAN :
       LET req == api.request[r]
           metadata == RunMetadata(r, req.target)
           done == [req EXCEPT !.completed = Append(@, req.target),
                               !.runs = Append(@, metadata)]
       IN  IF fulfilled
           THEN api' = [api EXCEPT
                          !.runs = addRun(@, metadata),
                          !.request[r] = StartTarget(done, req.target + 1)]
           ELSE api' = [api EXCEPT !.request[r].pc = "rejected"]
  /\ UNCHANGED <<runVars, scan, disk, srt, media, db>>

NextApi ==
  \E r \in Requests :
    \/ Extract(r)
    \/ RunGetMediaById(r)
    \/ RunGetSubtitleFile(r)
    \/ RunGetMediaUrl(r)
    \/ RunExtractClips(r)
    \/ RunRecordRun(r)

SpecApi == InitApi /\ [][NextApi]_vars

\* the runs of the index that request r added, in the order of the index
RECURSIVE RunsOf(_, _)
RunsOf(runs, r) ==
  IF runs = <<>> THEN <<>>
  ELSE IF Head(runs).run_directory[1] = r
       THEN <<Head(runs)>> \o RunsOf(Tail(runs), r)
       ELSE RunsOf(Tail(runs), r)

FirstTargets(n) == [i \in 1..n |-> i]

\* C30: the runs of a request are started one at a time in the order of
\* srcMedias, each after the one before it completed; the index holds the
\* metadata of exactly the completed runs, in that order; a request that
\* rejected at target k started no target after k and left the runs of
\* targets 1..k-1 in the index
C30_SequentialRunsIndexedOnCompletion ==
  \A r \in Requests :
    LET req == api.request[r]
        added == RunsOf(api.runs, r)
    IN  /\ req.started = FirstTargets(Len(req.started))
        /\ req.completed = FirstTargets(Len(req.completed))
        /\ Len(req.started) - Len(req.completed) \in {0, 1}
        /\ added = [i \in 1..Len(req.completed) |-> RunMetadata(r, i)]
        /\ req.pc = "rejected" =>
             /\ req.started = FirstTargets(req.target)
             /\ req.completed = FirstTargets(req.target - 1)
             /\ added = [i \in 1..(req.target - 1) |-> RunMetadata(r, i)]
        /\ req.pc = "returned" =>
             /\ req.completed = FirstTargets(Len(req.srcMedias))
             /\ req.runs = added

\* a request rejected at its second target: the run of the first is in
\* the index and the second is not
C30_Witness ==
  \E r \in Requests :
    /\ api.pc = "serving"
    /\ api.request[r].pc = "rejected"
    /\ api.request[r].target = 2
    /\ RunsOf(api.runs, r) = <<RunMetadata(r, 1)>>
====
